---- MODULE Spec2Model ----
(***************************************************************************)
(* State-machine model of ScryptedRuntime (server/src/runtime.ts, kept in  *)
(* src/server/src/scrypted-server-main.ts lines 600-1466): the plugin     *)
(* host supervisor, the device table, the device proxy table with its     *)
(* mixin chains, and the persistent store the runtime writes to.           *)
(***************************************************************************)
EXTENDS Integers, Sequences, FiniteSets, TLC

(***************************************************************************)
(* Bounds of the model and program constants.                              *)
(***************************************************************************)
\* number of PluginHost instances ever constructed in one behaviour of the
\* supervisor specification, and of the restart specification
MaxHosts == 3
MaxRestartHosts == 6
\* number of ids datastore.nextId() hands out in one behaviour
MaxId == 3
\* length of a persisted mixins list
MaxMixins == 2
\* granularity of the clock, in ms
TickMs == 30000
\* const timeout = 60000 (setupPluginHostAutoRestart)
RestartTimeout == 60000
\* PLUGIN_DEVICE_STATE_VERSION
PluginDeviceStateVersion == 2

PluginIds == {"p1", "p2"}

\* JavaScript undefined and null, as native id values; "" is the empty string
Undefined == "<undefined>"
Null == "<null>"
\* no device id / no host (undefined in a table lookup)
NoId == 0

\* ScryptedInterface.ScryptedPlugin
ScryptedPlugin == "ScryptedPlugin"
\* the interface vocabulary used by the model, in sort order
InterfaceOrder == <<"Battery", "OnOff", "ScryptedPlugin">>

VARIABLES
    plugins,        \* this.plugins: plugin id -> host instance (NoId: no entry)
    hosts,          \* every PluginHost instance constructed so far
    dsPlugins,      \* datastore, Plugin collection: ids of the stored records
    nextId,         \* datastore.nextId(): the last id handed out
    objs,           \* the PluginDevice objects, by _id (an object outlives its table entry)
    pluginDevices,  \* this.pluginDevices: the ids (keys) in the table
    dsDevices,      \* datastore, PluginDevice collection: _id -> stored copy
    devices,        \* this.devices: id -> proxy handler state
    calls,          \* in-flight removeDevice calls (async frames)
    running,        \* the call that holds the event loop (0: none)
    lastInv,        \* record of the invalidateMixins call of the last step, if any
    lastUp,         \* record of the last upsertDevice call that was observed
    boot,           \* progress of start(), the startup replay
    lastOp          \* record of the last supervisor call that was observed

hostVars == <<plugins, hosts, dsPlugins>>
devVars == <<nextId, objs, pluginDevices, dsDevices>>
callVars == <<calls, running>>
\* what the actions of a running runtime leave alone: the observation of
\* upsertDevice and supervisor calls and the startup replay, which is over
obsVars == <<lastUp, boot, lastOp>>
vars == <<plugins, hosts, dsPlugins, nextId, objs, pluginDevices, dsDevices,
          devices, calls, running, lastInv, lastUp, boot, lastOp>>

(***************************************************************************)
(* Small helpers.                                                          *)
(***************************************************************************)
Range(s) == {s[i] : i \in DOMAIN s}

Min(S) == CHOOSE x \in S : \A y \in S : x <= y

\* F applied to the value of v, which is computed once
Bind(v, F(_)) == CHOOSE r \in {F(x) : x \in {v}} : TRUE

\* Object.values() / Object.keys() of a table whose keys are integer-like
\* strings: ascending numeric order
RECURSIVE SortedSeq(_)
SortedSeq(S) ==
    IF S = {} THEN <<>>
    ELSE Bind(Min(S), LAMBDA m : <<m>> \o Bind(S \ {m}, LAMBDA T : SortedSeq(T)))

RECURSIVE SeqFilterOut(_, _)
SeqFilterOut(s, S) ==
    IF s = <<>> THEN <<>>
    ELSE (IF Head(s) \in S THEN <<>> ELSE <<Head(s)>>) \o SeqFilterOut(Tail(s), S)

\* a findIndex that matches the head of every chain
FindIndexHead(table, id) == IF table = <<>> THEN 0 ELSE 1

\* Array.findIndex on a mixin table, 1-based; 0 when not found (-1 in the code)
FindIndex(table, id) ==
    IF \E i \in DOMAIN table : table[i].mixinProviderId = id
    THEN Min({i \in DOMAIN table : table[i].mixinProviderId = id})
    ELSE 0

(***************************************************************************)
(* PluginDevice objects and their state maps (db-types.ts, state.ts).      *)
(***************************************************************************)
EmptyState ==
    [nativeId |-> Undefined, pluginId |-> Undefined, providedInterfaces |-> <<>>,
     interfaces |-> <<>>, mixins |-> <<>>, providerId |-> NoId]

\* new PluginDevice(id), before the id is set: no plugin id, no native id,
\* no state yet
NewPluginDevice ==
    [id |-> NoId, pluginId |-> Undefined, nativeId |-> Undefined, hasState |-> FALSE,
     state |-> EmptyState, stateVersion |-> 0]

\* getState(pluginDevice, property): pluginDevice.state?.[property]?.value
getState(o, prop) == IF o.hasState THEN o.state[prop] ELSE EmptyState[prop]

\* setState(pluginDevice, property, value): the object with the value recorded
setState(o, prop, value) ==
    [o EXCEPT !.hasState = TRUE, !.state = [o.state EXCEPT ![prop] = value]]

\* PluginDeviceProxyHandler.sortInterfaces: duplicates dropped, sorted
sortInterfaces(ifaces) ==
    LET keep == {i \in DOMAIN InterfaceOrder : InterfaceOrder[i] \in Range(ifaces)}
        idx == SortedSeq(keep)
    IN [k \in DOMAIN idx |-> InterfaceOrder[idx[k]]]

\* JavaScript "a == b" on native ids: null and undefined are equal to each
\* other and to nothing else; strings compare by value
LooseEq(a, b) ==
    IF a \in {Undefined, Null} THEN b \in {Undefined, Null} ELSE a = b

\* JavaScript "!nativeId": undefined, null and the empty string are falsy
Falsy(nativeId) == nativeId \in {Undefined, Null, ""}

\* a lookup that never finds a record
findPluginDeviceNone(os, pd, pluginId, nativeId) == NoId

\* findPluginDevice(pluginId, nativeId): the first matching record in key
\* order, NoId when there is none
findPluginDevice(os, pd, pluginId, nativeId) ==
    LET nid == IF nativeId = Null THEN Undefined ELSE nativeId
        hit == {id \in pd : os[id].pluginId = pluginId /\ LooseEq(os[id].nativeId, nid)}
    IN IF hit = {} THEN NoId ELSE Min(hit)

\* findPluginDevices(pluginId): the records of the plugin that have a state
findPluginDevices(os, pd, pluginId) ==
    {id \in pd : os[id].hasState /\ os[id].pluginId = pluginId}

(***************************************************************************)
(* Device proxies and mixin tables (plugin/plugin-device.ts).              *)
(* A handler is [built, table]: built = FALSE is mixinTable === undefined. *)
(* A table lists its entries outermost first; the last entry is the device *)
(* itself and has no mixinProviderId.                                      *)
(***************************************************************************)
\* new PluginDeviceProxyHandler(this, id) and new Proxy(handler, handler):
\* no chain yet; proxy is the identity of the pair of objects, the number
\* of pairs created up to and with this one
NewHandler == [built |-> FALSE, table |-> <<>>, proxy |-> 1]

Entry(providerId) == [mixinProviderId |-> providerId]

\* a getDevice that makes a new proxy pair on every call
getDeviceFresh(dv, pd, id) ==
    IF id \notin pd THEN dv
    ELSE [i \in DOMAIN dv \cup {id} |->
            IF i = id
            THEN [NewHandler EXCEPT
                    !.proxy = 1 + Cardinality(DOMAIN dv)
                                + (IF id \in DOMAIN dv THEN dv[id].proxy ELSE 0)]
            ELSE dv[i]]

\* getDevice(id): the table with a proxy pair for id, created on first use
\* when the device exists
getDevice(dv, pd, id) ==
    IF id \in DOMAIN dv THEN dv
    ELSE IF id \notin pd THEN dv
    ELSE dv @@ (id :> [NewHandler EXCEPT !.proxy = Cardinality(DOMAIN dv) + 1])

\* PluginDeviceProxyHandler.invalidate(): the chain is discarded
HandlerInvalidate(h) == [h EXCEPT !.built = FALSE, !.table = <<>>]

\* invalidatePluginDevice(id)
invalidatePluginDevice(dv, id) ==
    IF id \notin DOMAIN dv THEN dv
    ELSE [dv EXCEPT ![id] = HandlerInvalidate(dv[id])]

RECURSIVE ApplyMixins(_, _, _)
\* one wrapper per mixin of the list, innermost first, each put in front of
\* the chain; a provider already in the chain keeps its entry, a provider
\* that is missing or declines (not in ok) is skipped
ApplyMixins(table, mixins, ok) ==
    IF mixins = <<>> THEN table
    ELSE LET m == Head(mixins)
             next == IF m \in ok /\ FindIndex(table, m) = 0
                     THEN <<Entry(m)>> \o table ELSE table
         IN Bind(next, LAMBDA t : ApplyMixins(t, Tail(mixins), ok))

\* PluginDeviceProxyHandler.rebuildMixinTable() / ensureProxy(): the chain of
\* device id is completed from what is left of it. declined: the providers
\* whose canMixin returns null
rebuildMixinTable(dv, os, pd, id, declined) ==
    IF id \notin DOMAIN dv \/ id \notin pd \/ ~os[id].hasState THEN dv
    ELSE LET base == IF dv[id].built THEN dv[id].table ELSE <<Entry(NoId)>>
             ok == {m \in pd : os[m].hasState} \ declined
         IN [dv EXCEPT ![id] =
                [@ EXCEPT !.built = TRUE,
                          !.table = ApplyMixins(base, getState(os[id], "mixins"), ok)]]

\* the answer of a proxy that has no chain entry for a capability
NoEntry == -1

\* the interfaces that the wrapper of mixin provider m declares (what its
\* canMixin answers for the devices it is mixed into)
MixinInterfaces(m) ==
    IF m = 3 THEN {"Battery"} ELSE IF m = 4 THEN {"OnOff"} ELSE {}

\* the capabilities that an entry of the chain of device id declares: the
\* wrapper's, or for the last entry the providedInterfaces of the device
EntryInterfaces(os, id, entry) ==
    IF entry.mixinProviderId = NoId
    THEN Range(getState(os[id], "providedInterfaces"))
    ELSE MixinInterfaces(entry.mixinProviderId)

\* a dispatch to the innermost entry that declares the capability
dispatchInnermost(dv, os, id, capability) ==
    LET table == dv[id].table
        hits == {i \in DOMAIN table :
                   capability \in EntryInterfaces(os, id, table[i])}
    IN IF hits = {} THEN NoEntry
       ELSE table[CHOOSE i \in hits : \A j \in hits : j <= i].mixinProviderId

\* access to a capability on the proxy of device id, whose chain is built:
\* the provider id of the entry that serves it (NoId: the device's raw
\* implementation), NoEntry when no entry declares it
dispatch(dv, os, id, capability) ==
    LET table == dv[id].table
        hits == {i \in DOMAIN table :
                   capability \in EntryInterfaces(os, id, table[i])}
    IN IF hits = {} THEN NoEntry ELSE table[Min(hits)].mixinProviderId

RECURSIVE RebuildAll(_, _, _, _, _)
\* second pass of invalidateMixins: for (const id of ret) rebuildMixinTable()
RebuildAll(dv, os, pd, ids, declined) ==
    IF ids = <<>> THEN dv
    ELSE Bind(rebuildMixinTable(dv, os, pd, Head(ids), declined),
              LAMBDA d : RebuildAll(d, os, pd, Tail(ids), declined))

\* one match of the first pass: the chain of device did had an entry of
\* provider id at foundIndex (1-based); chain is the mixinTable before the
\* match and left after it, removed the entries handed to invalidateEntry,
\* in the order of the calls
Match(did, id, foundIndex, chain, left, removed) ==
    [device |-> did, id |-> id, foundIndex |-> foundIndex, chain |-> chain,
     left |-> left, removed |-> removed]

\* an inner loop body that removes the matched entry alone
InvalidateOneMatchOnly(st, id, did) ==
    LET table == st.dv[did].table
        foundIndex == IF st.dv[did].built THEN FindIndex(table, id) ELSE 0
        fresh == \A i \in DOMAIN st.ret : st.ret[i] # did
        st1 == IF fresh
               THEN [st EXCEPT !.ret = Append(@, did), !.remaining = Append(@, did)]
               ELSE st
    IN IF foundIndex = 0 THEN st
       ELSE IF foundIndex = Len(table)
       THEN [st1 EXCEPT
                !.matches = Append(@, Match(did, id, foundIndex, table,
                                            st1.dv[did].table, <<>>))]
       ELSE [st1 EXCEPT
                !.dv[did].table = SubSeq(table, 1, foundIndex - 1)
                                      \o SubSeq(table, foundIndex + 1, Len(table)),
                !.released = Append(@, <<did, id>>),
                !.matches = Append(@, Match(did, id, foundIndex, table,
                                            SubSeq(table, 1, foundIndex - 1)
                                                \o SubSeq(table, foundIndex + 1, Len(table)),
                                            <<table[foundIndex]>>))]

\* an inner loop body that removes every wrapper of the chain on a match
InvalidateOneWholeChain(st, id, did) ==
    LET table == st.dv[did].table
        foundIndex == IF st.dv[did].built THEN FindIndex(table, id) ELSE 0
        fresh == \A i \in DOMAIN st.ret : st.ret[i] # did
        st1 == IF fresh
               THEN [st EXCEPT !.ret = Append(@, did), !.remaining = Append(@, did)]
               ELSE st
    IN IF foundIndex = 0 THEN st
       ELSE [st1 EXCEPT
                !.dv[did].table = SubSeq(table, Len(table), Len(table)),
                !.released = @ \o [i \in 1..(Len(table) - 1) |->
                                      <<did, table[i].mixinProviderId>>],
                !.matches = Append(@, Match(did, id, foundIndex, table,
                                            SubSeq(table, Len(table), Len(table)),
                                            SubSeq(table, 1, Len(table) - 1)))]

\* an inner loop body that pushes a device it finds to the work list twice
InvalidateOneEnqueueTwice(st, id, did) ==
    LET table == st.dv[did].table
        foundIndex == IF st.dv[did].built THEN FindIndex(table, id) ELSE 0
        fresh == \A i \in DOMAIN st.ret : st.ret[i] # did
        st1 == IF fresh
               THEN [st EXCEPT !.ret = Append(@, did),
                               !.remaining = @ \o <<did, did>>]
               ELSE st
    IN IF foundIndex = 0 THEN st
       ELSE IF foundIndex = Len(table)
       THEN [st1 EXCEPT
                !.matches = Append(@, Match(did, id, foundIndex, table,
                                            st1.dv[did].table, <<>>))]
       ELSE [st1 EXCEPT
                !.dv[did].table = SubSeq(table, foundIndex + 1, Len(table)),
                !.released = @ \o [i \in 1..foundIndex |->
                                      <<did, table[i].mixinProviderId>>],
                !.matches = Append(@, Match(did, id, foundIndex, table,
                                            SubSeq(table, foundIndex + 1, Len(table)),
                                            SubSeq(table, 1, foundIndex)))]

\* an inner loop body that splices on a match of the last entry too
InvalidateOneNoSkip(st, id, did) ==
    LET table == st.dv[did].table
        foundIndex == IF st.dv[did].built THEN FindIndex(table, id) ELSE 0
        fresh == \A i \in DOMAIN st.ret : st.ret[i] # did
        st1 == IF fresh
               THEN [st EXCEPT !.ret = Append(@, did), !.remaining = Append(@, did)]
               ELSE st
    IN IF foundIndex = 0 THEN st
       ELSE [st1 EXCEPT
                !.dv[did].table = SubSeq(table, foundIndex + 1, Len(table)),
                !.released = @ \o [i \in 1..foundIndex |->
                                      <<did, table[i].mixinProviderId>>],
                !.matches = Append(@, Match(did, id, foundIndex, table,
                                            SubSeq(table, foundIndex + 1, Len(table)),
                                            SubSeq(table, 1, foundIndex)))]

\* body of the inner loop of invalidateMixins for one proxy pair: st is
\* [remaining, ret, dv, released, log, matches]
InvalidateOne(st, id, did) ==
    LET table == st.dv[did].table
        foundIndex == IF st.dv[did].built THEN FindIndex(table, id) ELSE 0
        fresh == \A i \in DOMAIN st.ret : st.ret[i] # did
        st1 == IF fresh
               THEN [st EXCEPT !.ret = Append(@, did), !.remaining = Append(@, did)]
               ELSE st
    IN IF foundIndex = 0 THEN st
       ELSE IF foundIndex = Len(table)
       THEN [st1 EXCEPT
                !.matches = Append(@, Match(did, id, foundIndex, table,
                                            st1.dv[did].table, <<>>))]
       ELSE [st1 EXCEPT
                !.dv[did].table = SubSeq(table, foundIndex + 1, Len(table)),
                !.released = @ \o [i \in 1..foundIndex |->
                                      <<did, table[i].mixinProviderId>>],
                !.matches = Append(@, Match(did, id, foundIndex, table,
                                            SubSeq(table, foundIndex + 1, Len(table)),
                                            SubSeq(table, 1, foundIndex)))]

RECURSIVE InvalidateScan(_, _, _)
\* for (const device of Object.values(this.devices)) ...
InvalidateScan(st, id, keys) ==
    IF keys = <<>> THEN st
    ELSE Bind(InvalidateOne(st, id, Head(keys)),
              LAMBDA s : InvalidateScan(s, id, Tail(keys)))

\* a first pass that pops one id and leaves the rest of the work list
InvalidatePassOnce(st) ==
    IF st.remaining = <<>> THEN st
    ELSE LET n == Len(st.remaining)
             id == st.remaining[n]
             popped == [st EXCEPT !.remaining = SubSeq(@, 1, n - 1),
                                  !.log = Append(@, <<"pop", id>>)]
         IN Bind(InvalidateScan(popped, id, SortedSeq(DOMAIN st.dv)),
                 LAMBDA s : [s EXCEPT !.remaining = <<>>])

RECURSIVE InvalidatePass(_)
\* while (remaining.length) { const id = remaining.pop(); ... }
InvalidatePass(st) ==
    IF st.remaining = <<>> THEN st
    ELSE LET n == Len(st.remaining)
             id == st.remaining[n]
             popped == [st EXCEPT !.remaining = SubSeq(@, 1, n - 1),
                                  !.log = Append(@, <<"pop", id>>)]
         IN Bind(InvalidateScan(popped, id, SortedSeq(DOMAIN st.dv)),
                 LAMBDA s : InvalidatePass(s))

\* a second pass that runs over the devices found for the given ids alone
invalidateMixinsGivenOnly(dv, os, pd, ids, declined) ==
    Bind(InvalidatePass([remaining |-> ids, ret |-> <<>>, dv |-> dv,
                         released |-> <<>>, log |-> <<>>, matches |-> <<>>]),
         LAMBDA p1 :
            Bind(SelectSeq(p1.ret,
                           LAMBDA d : \E j \in DOMAIN dv[d].table :
                                         \E i \in DOMAIN ids :
                                            dv[d].table[j].mixinProviderId = ids[i]),
                 LAMBDA given :
                    [called |-> TRUE, ids |-> ids, declined |-> declined,
                     before |-> dv, spliced |-> p1.dv, pending |-> p1.remaining,
                     ret |-> p1.ret, released |-> p1.released, rebuilt |-> given,
                     matches |-> p1.matches,
                     log |-> p1.log \o [i \in DOMAIN given |-> <<"rebuild", given[i]>>],
                     after |-> RebuildAll(p1.dv, os, pd, given, declined)]))

\* invalidateMixins(ids): ids in the insertion order of the Set. The result
\* records the call: the table before, after the first pass and after the
\* second, the work list when the second pass begins, the returned set (in
\* insertion order), the ids whose rebuildMixinTable the second pass called,
\* every invalidateEntry call as <<device id, mixinProviderId>>, the
\* order of the pops of the work list and of the rebuildMixinTable calls,
\* and the matches of the first pass in the order they were found
invalidateMixins(dv, os, pd, ids, declined) ==
    Bind(InvalidatePass([remaining |-> ids, ret |-> <<>>, dv |-> dv,
                         released |-> <<>>, log |-> <<>>, matches |-> <<>>]),
         LAMBDA p1 :
            [called |-> TRUE, ids |-> ids, declined |-> declined,
             before |-> dv, spliced |-> p1.dv, pending |-> p1.remaining,
             ret |-> p1.ret, released |-> p1.released, rebuilt |-> p1.ret,
             matches |-> p1.matches,
             log |-> p1.log \o [i \in DOMAIN p1.ret |-> <<"rebuild", p1.ret[i]>>],
             after |-> RebuildAll(p1.dv, os, pd, p1.ret, declined)])

NoInvalidation ==
    [called |-> FALSE, ids |-> <<>>, declined |-> {}, before |-> <<>>,
     spliced |-> <<>>, pending |-> <<>>,
     ret |-> <<>>, released |-> <<>>, rebuilt |-> <<>>, log |-> <<>>,
     matches |-> <<>>, after |-> <<>>]

(***************************************************************************)
(* Plugin hosts (plugin/plugin-host.ts) and their supervision.             *)
(* worker: "running", "dead" (the process is gone, its 'exit' event is     *)
(* still to be delivered) or "reaped" (the event was delivered).           *)
(* timer: the restart callback of setupPluginHostAutoRestart: "none",      *)
(* "armed" (setTimeout pending, elapsed ms since it was set), "cancelled"  *)
(* (identity check failed), "lookup" (datastore.tryGet issued), "resume"   *)
(* (tryGet answered with found), "gone" (no Plugin record), "restarted".   *)
(* superseded, replaced: history of the callback, for the restart claims.  *)
(***************************************************************************)
NewHost(pluginId) ==
    [pluginId |-> pluginId, killed |-> FALSE, worker |-> "running",
     timer |-> "none", elapsed |-> 0, found |-> FALSE,
     superseded |-> FALSE, replaced |-> NoId]

\* a kill that terminates the worker and leaves the host unmarked
HostKillUnmarked(h) ==
    [h EXCEPT !.worker = IF @ = "running" THEN "dead" ELSE @]

\* PluginHost.kill(): marks the host killed and terminates the worker
HostKill(h) ==
    [h EXCEPT !.killed = TRUE,
              !.worker = IF @ = "running" THEN "dead" ELSE @]

\* a killPlugin that forgets existing.kill()
killPluginNoKill(pl, hs, pluginId) ==
    [plugins |-> [pl EXCEPT ![pluginId] = NoId], hosts |-> hs,
     log |-> IF pl[pluginId] # NoId THEN <<<<"unregister", pl[pluginId], NoId>>>>
             ELSE <<>>]

\* a killPlugin that leaves the host in the plugins table
killPluginKeepsEntry(pl, hs, pluginId) ==
    LET existing == pl[pluginId]
    IN IF existing # NoId
       THEN [plugins |-> pl,
             hosts |-> [hs EXCEPT ![existing] = HostKill(@)],
             log |-> <<<<"kill", existing, existing>>>>]
       ELSE [plugins |-> pl, hosts |-> hs, log |-> <<>>]

\* killPlugin(pluginId): the tables after the call and, in log, the steps of
\* the call in their order, each <<step, host or device id, the host that
\* is registered for the plugin after the step>>
killPlugin(pl, hs, pluginId) ==
    LET existing == pl[pluginId]
    IN IF existing # NoId
       THEN [plugins |-> [pl EXCEPT ![pluginId] = NoId],
             hosts |-> [hs EXCEPT ![existing] = HostKill(@)],
             log |-> <<<<"unregister", existing, NoId>>, <<"kill", existing, NoId>>>>]
       ELSE [plugins |-> pl, hosts |-> hs, log |-> <<>>]

RECURSIVE InvalidateEach(_, _)
InvalidateEach(dv, ids) ==
    IF ids = <<>> THEN dv
    ELSE Bind(invalidatePluginDevice(dv, Head(ids)),
              LAMBDA d : InvalidateEach(d, Tail(ids)))

RECURSIVE GetEach(_, _, _)
GetEach(dv, pd, ids) ==
    IF ids = <<>> THEN dv
    ELSE Bind(getDevice(dv, pd, Head(ids)), LAMBDA d : GetEach(d, pd, Tail(ids)))

\* a runPlugin that probes the devices before it replaces the host
runPluginProbesFirst(pl, hs, dv, os, pd, pluginId) ==
    LET found == SortedSeq(findPluginDevices(os, pd, pluginId))
        dv0 == GetEach(dv, pd, found)
        k == killPlugin(pl, hs, pluginId)
        dv1 == InvalidateEach(dv0, found)
        hs1 == Append(k.hosts, NewHost(pluginId))
        pl1 == [k.plugins EXCEPT ![pluginId] = Len(hs1)]
    IN [plugins |-> pl1, hosts |-> hs1, devices |-> dv1,
        log |-> [i \in DOMAIN found |-> <<"probe", found[i], pl[pluginId]>>]
                  \o k.log
                  \o [i \in DOMAIN found |-> <<"invalidate", found[i], NoId>>]
                  \o <<<<"arm", Len(hs1), NoId>>, <<"register", Len(hs1), Len(hs1)>>>>]

\* runPlugin(plugin): the plugins table, the hosts and the proxy table after
\* the call; the new host is the last of hosts. log: the steps of the call
\* in their order, as in killPlugin
runPlugin(pl, hs, dv, os, pd, pluginId) ==
    LET k == killPlugin(pl, hs, pluginId)
        found == SortedSeq(findPluginDevices(os, pd, pluginId))
        dv1 == InvalidateEach(dv, found)
        hs1 == Append(k.hosts, NewHost(pluginId))
        pl1 == [k.plugins EXCEPT ![pluginId] = Len(hs1)]
    IN [plugins |-> pl1, hosts |-> hs1, devices |-> GetEach(dv1, pd, found),
        log |-> k.log
                  \o [i \in DOMAIN found |->
                         <<"invalidate", found[i], k.plugins[pluginId]>>]
                  \o <<<<"arm", Len(hs1), k.plugins[pluginId]>>,
                       <<"register", Len(hs1), pl1[pluginId]>>>>
                  \o [i \in DOMAIN found |-> <<"probe", found[i], pl1[pluginId]>>]]

\* no supervisor call observed
NoOp ==
    [op |-> "none", pluginId |-> Undefined, log |-> <<>>, pending |-> {}]

CallIds == {1}

\* an operation of the runtime that runs while a removeDevice call is
\* suspended: the call is no longer undisturbed
Disturb ==
    /\ calls' = [c \in CallIds |->
                    IF calls[c].status = "active"
                    THEN [calls[c] EXCEPT !.quiet = FALSE] ELSE calls[c]]
    /\ running' = running

HostIds == DOMAIN hosts

Idle == running = 0

\* a restart of the plugin by the user (PluginComponent reload): the Plugin
\* record is read from the datastore and handed to runPlugin. A restart
\* callback of the plugin that is still armed and not yet due is one that
\* this restart supersedes
RunPlugin(pluginId) ==
    /\ Idle
    /\ pluginId \in dsPlugins
    /\ \E r \in {runPlugin(plugins, hosts, devices, objs, pluginDevices, pluginId)} :
          /\ plugins' = r.plugins
          /\ hosts' = [h \in DOMAIN r.hosts |->
                         IF /\ r.hosts[h].pluginId = pluginId
                            /\ r.hosts[h].timer = "armed"
                            /\ r.hosts[h].elapsed < RestartTimeout
                         THEN [r.hosts[h] EXCEPT !.superseded = TRUE]
                         ELSE r.hosts[h]]
          /\ devices' = r.devices
    /\ Disturb
    /\ lastInv' = NoInvalidation
    /\ UNCHANGED obsVars
    /\ UNCHANGED <<dsPlugins, devVars>>

\* a kill of the plugin by the user
KillPlugin(pluginId) ==
    /\ Idle
    /\ plugins[pluginId] # NoId
    /\ LET k == killPlugin(plugins, hosts, pluginId)
       IN plugins' = k.plugins /\ hosts' = k.hosts
    /\ Disturb
    /\ lastInv' = NoInvalidation
    /\ UNCHANGED obsVars
    /\ UNCHANGED <<dsPlugins, devVars, devices>>

\* the worker process of a host exits on its own
WorkerExit(h) ==
    /\ Idle
    /\ hosts[h].worker = "running"
    /\ hosts' = [hosts EXCEPT ![h].worker = "dead"]
    /\ lastInv' = NoInvalidation
    /\ UNCHANGED obsVars
    /\ UNCHANGED <<plugins, dsPlugins, devVars, devices, callVars>>

\* pluginHost.worker.once('exit', ...): the handler of the exit event
OnWorkerExit(h) ==
    /\ Idle
    /\ hosts[h].worker = "dead"
    /\ hosts' = [hosts EXCEPT ![h] =
                    IF @.killed THEN [@ EXCEPT !.worker = "reaped"]
                    ELSE [HostKill(@) EXCEPT !.worker = "reaped",
                                             !.timer = "armed", !.elapsed = 0]]
    /\ lastInv' = NoInvalidation
    /\ UNCHANGED obsVars
    /\ UNCHANGED <<plugins, dsPlugins, devVars, devices, callVars>>

\* time passes for the armed timers that are not yet due
Tick ==
    /\ Idle
    /\ \E h \in HostIds : hosts[h].timer = "armed" /\ hosts[h].elapsed < RestartTimeout
    /\ hosts' = [h \in HostIds |->
                    IF hosts[h].timer = "armed" /\ hosts[h].elapsed < RestartTimeout
                    THEN [hosts[h] EXCEPT !.elapsed = @ + TickMs]
                    ELSE hosts[h]]
    /\ lastInv' = NoInvalidation
    /\ UNCHANGED obsVars
    /\ UNCHANGED <<plugins, dsPlugins, devVars, devices, callVars>>

\* a timer that fires without waiting
TimerDueAtOnce(h) == TRUE

\* setTimeout(..., timeout): the callback runs once timeout ms have passed
TimerDue(h) == hosts[h].elapsed >= RestartTimeout

\* an identity check that only asks whether some host is registered
RestartCancelledIfNone(h) == plugins[hosts[h].pluginId] = NoId

\* existing !== pluginHost
RestartCancelled(h) == plugins[hosts[h].pluginId] # h

\* the restart callback, up to its await of datastore.tryGet
TimerFire(h) ==
    /\ Idle
    /\ hosts[h].timer = "armed"
    /\ TimerDue(h)
    /\ hosts' = [hosts EXCEPT ![h].timer =
                    IF RestartCancelled(h) THEN "cancelled" ELSE "lookup"]
    /\ lastInv' = NoInvalidation
    /\ UNCHANGED obsVars
    /\ UNCHANGED <<plugins, dsPlugins, devVars, devices, callVars>>

\* the datastore answers the tryGet of the callback
TimerLookup(h) ==
    /\ Idle
    /\ hosts[h].timer = "lookup"
    /\ hosts' = [hosts EXCEPT ![h].timer = "resume",
                              ![h].found = (hosts[h].pluginId \in dsPlugins)]
    /\ lastInv' = NoInvalidation
    /\ UNCHANGED obsVars
    /\ UNCHANGED <<plugins, dsPlugins, devVars, devices, callVars>>

\* the restart callback after its await: no record, or runPlugin(plugin)
TimerResume(h) ==
    /\ Idle
    /\ hosts[h].timer = "resume"
    /\ IF ~hosts[h].found
       THEN /\ hosts' = [hosts EXCEPT ![h].timer = "gone"]
            /\ UNCHANGED <<plugins, devices>>
       ELSE \E r \in {runPlugin(plugins, hosts, devices, objs, pluginDevices,
                                 hosts[h].pluginId)} :
               /\ plugins' = r.plugins
               /\ hosts' = [r.hosts EXCEPT ![h].timer = "restarted",
                                           ![h].replaced = plugins[hosts[h].pluginId]]
               /\ devices' = r.devices
    /\ Disturb
    /\ lastInv' = NoInvalidation
    /\ UNCHANGED obsVars
    /\ UNCHANGED <<dsPlugins, devVars>>

(***************************************************************************)
(* upsertDevice and the persistent store.                                  *)
(* A Device declaration is [nativeId, providerNativeId, interfaces].       *)
(***************************************************************************)
\* datastore.upsert(value): the stored copy is replaced
dsUpsert(ds, id, o) ==
    [i \in DOMAIN ds \cup {id} |-> IF i = id THEN o ELSE ds[i]]

\* datastore.remove(value)
dsRemove(ds, id) == [i \in DOMAIN ds \ {id} |-> ds[i]]

\* providedInterfaces without the push of the ScryptedPlugin marker
ProvidedInterfacesNoMarker(nativeId, interfaces) ==
    sortInterfaces(IF Falsy(nativeId) THEN interfaces
                   ELSE SeqFilterOut(interfaces, {ScryptedPlugin}))

\* the providedInterfaces of a declaration: the ScryptedPlugin marker is
\* added for a device without native id and removed from any other
ProvidedInterfaces(nativeId, interfaces) ==
    sortInterfaces(IF Falsy(nativeId) THEN Append(interfaces, ScryptedPlugin)
                   ELSE SeqFilterOut(interfaces, {ScryptedPlugin}))

\* a resolution that forgets the final sortInterfaces
ResolvedInterfacesUnsorted(mixins, interfaces, providedInterfaces) ==
    (IF mixins # <<>> THEN interfaces ELSE <<>>) \o providedInterfaces

\* a resolution that never seeds from the interfaces resolved before
ResolvedInterfacesProvided(mixins, interfaces, providedInterfaces) ==
    sortInterfaces(providedInterfaces)

\* a resolution that seeds from the interfaces resolved before when the
\* device has no mixins
ResolvedInterfacesSeedsWithout(mixins, interfaces, providedInterfaces) ==
    sortInterfaces((IF mixins = <<>> THEN interfaces ELSE <<>>) \o providedInterfaces)

\* mixinInterfaces: for a device with mixins the interfaces resolved before,
\* then the provided ones, sorted
ResolvedInterfaces(mixins, interfaces, providedInterfaces) ==
    sortInterfaces((IF mixins # <<>> THEN interfaces ELSE <<>>) \o providedInterfaces)

\* upsertDevice(pluginId, device): the tables after the call, the id of the
\* record and interfacesChanged. The record is found or created, stamped,
\* its interfaces resolved, its provider looked up, and it is persisted by
\* notifyPluginDeviceDescriptorChanged
upsertDevice(os, pd, ds, next, pluginId, device) ==
    LET nativeId == IF device.nativeId = Null THEN Undefined ELSE device.nativeId
        found == findPluginDevice(os, pd, pluginId, nativeId)
        id == IF found = NoId THEN next + 1 ELSE found
        o0 == IF found = NoId
              THEN [NewPluginDevice EXCEPT !.id = next + 1,
                                           !.stateVersion = PluginDeviceStateVersion]
              ELSE os[found]
        o1 == [o0 EXCEPT !.pluginId = pluginId, !.nativeId = nativeId,
                         !.hasState = TRUE]
        o2 == setState(o1, "nativeId", nativeId)
        providedInterfaces == ProvidedInterfaces(nativeId, device.interfaces)
        mixins == getState(o2, "mixins")
        mixinInterfaces ==
            ResolvedInterfaces(mixins, getState(o2, "interfaces"), providedInterfaces)
        o3 == setState(o2, "pluginId", pluginId)
        o4 == setState(o3, "providedInterfaces", providedInterfaces)
        o5 == setState(o4, "interfaces", mixinInterfaces)
        interfacesChanged ==
            \/ getState(o3, "providedInterfaces") # providedInterfaces
            \/ getState(o4, "interfaces") # mixinInterfaces
        os1 == IF found = NoId THEN Append(os, o5) ELSE [os EXCEPT ![id] = o5]
        pd1 == pd \cup {id}
        provider == findPluginDevice(os1, pd1, pluginId, device.providerNativeId)
        o6 == setState(o5, "providerId", provider)
    IN [objs |-> [os1 EXCEPT ![id] = o6], pluginDevices |-> pd1,
        dsDevices |-> dsUpsert(ds, id, o6),
        nextId |-> IF found = NoId THEN next + 1 ELSE next,
        id |-> id, interfacesChanged |-> interfacesChanged]

\* no upsertDevice call observed
NoUpsert ==
    [called |-> FALSE, pluginId |-> Undefined, device |-> <<>>, id |-> NoId,
     found |-> NoId, interfacesChanged |-> FALSE, before |-> NewPluginDevice,
     live |-> {}, prev |-> <<>>, seen |-> <<>>]

\* start() has returned
Started ==
    [pc |-> "done", todo |-> <<>>, visited |-> {}, invoked |-> {}, failed |-> {},
     cleared |-> {}, found |-> <<>>, written |-> {}]

\* the declaration is of a device that removeDevice call c removes, or of a
\* child of one
Concerns(c, pluginId, device) ==
    \E t \in calls[c].targets :
        /\ objs[t].pluginId = pluginId
        /\ \/ LooseEq(objs[t].nativeId, device.nativeId)
           \/ LooseEq(objs[t].nativeId, device.providerNativeId)

\* a plugin process reports a device (DeviceManager.onDeviceDiscovered):
\* upsertDevice(pluginId, device) and its effect on the tables
UpsertDeviceCall(pluginId, device) ==
    /\ Idle
    /\ \E h \in HostIds : hosts[h].pluginId = pluginId
    /\ \E u \in {upsertDevice(objs, pluginDevices, dsDevices, nextId, pluginId, device)} :
          /\ u.nextId <= MaxId
          /\ objs' = u.objs
          /\ pluginDevices' = u.pluginDevices
          /\ dsDevices' = u.dsDevices
          /\ nextId' = u.nextId
          /\ calls' = [c \in CallIds |->
                          IF calls[c].status = "active"
                          THEN [calls[c] EXCEPT
                                    !.quiet = FALSE,
                                    !.upserted = @ \/ Concerns(c, pluginId, device)]
                          ELSE calls[c]]
    /\ running' = running
    /\ lastInv' = NoInvalidation
    /\ UNCHANGED <<hostVars, devices, boot, lastOp>>

\* the record of the call: its input, the live record it found, the live
\* records of the same plugin id and native id (null read as undefined), the
\* object before the call, the input and id of the call observed before it,
\* and, per device id, the interfaces provided in any of the observed calls
UpsertRecord(pluginId, device) ==
    LET u == upsertDevice(objs, pluginDevices, dsDevices, nextId, pluginId, device)
        found == findPluginDevice(objs, pluginDevices, pluginId, device.nativeId)
        seen == IF lastUp.called THEN lastUp.seen ELSE <<>>
    IN [called |-> TRUE, pluginId |-> pluginId, device |-> device, id |-> u.id,
        found |-> found, interfacesChanged |-> u.interfacesChanged,
        before |-> IF found = NoId THEN NewPluginDevice ELSE objs[found],
        live |-> {x \in pluginDevices :
                    /\ objs[x].pluginId = pluginId
                    /\ objs[x].nativeId
                          = (IF device.nativeId = Null THEN Undefined
                             ELSE device.nativeId)},
        prev |-> IF lastUp.called
                 THEN <<[pluginId |-> lastUp.pluginId, device |-> lastUp.device,
                         id |-> lastUp.id]>>
                 ELSE <<>>,
        seen |-> [i \in DOMAIN u.objs |->
                    (IF i \in DOMAIN seen THEN seen[i] ELSE {})
                        \cup (IF i = u.id
                              THEN Range(getState(u.objs[i], "providedInterfaces"))
                              ELSE {})]]

\* the call, observed
UpsertDeviceObserved(pluginId, device) ==
    /\ UpsertDeviceCall(pluginId, device)
    /\ lastUp' = UpsertRecord(pluginId, device)

\* the call, not observed
UpsertDevice(pluginId, device) ==
    /\ UpsertDeviceCall(pluginId, device)
    /\ UNCHANGED lastUp

\* installNpm's datastore.upsert(plugin), then installPlugin(plugin): the
\* root device of the manifest is upserted and the plugin is run
InstallPlugin(pluginId, interfaces) ==
    /\ Idle
    /\ \E u \in {upsertDevice(objs, pluginDevices, dsDevices, nextId, pluginId,
                               [nativeId |-> Undefined, providerNativeId |-> Undefined,
                                interfaces |-> interfaces])} :
       \E r \in {runPlugin(plugins, hosts, devices, u.objs, u.pluginDevices, pluginId)} :
          /\ u.nextId <= MaxId
          /\ objs' = u.objs
          /\ pluginDevices' = u.pluginDevices
          /\ dsDevices' = u.dsDevices
          /\ nextId' = u.nextId
          /\ plugins' = r.plugins
          /\ hosts' = r.hosts
          /\ devices' = r.devices
    /\ dsPlugins' = dsPlugins \cup {pluginId}
    /\ Disturb
    /\ lastInv' = NoInvalidation
    /\ UNCHANGED obsVars

(***************************************************************************)
(* removeDevice: an async function. A call is a stack of frames, one per   *)
(* nested removeDevice; a frame is [dev, todo, pc] with pc "loop" (in the  *)
(* for loop over providedDevices, or about to clear its own state),        *)
(* "awaitRemove" (await datastore.remove), "awaitRemoveId" (await          *)
(* datastore.removeId) or "awaitNotify" (await remote.setNativeId).        *)
(* While running = c the call runs synchronously; at an await it gives up  *)
(* the event loop (running = 0) until it is resumed.                       *)
(* targets, quiet, host0, record0, orphan, upserted: history of the call,  *)
(* for the claims.                                                         *)
(***************************************************************************)
\* the recursion of a removal that never ends exhausts the JavaScript stack;
\* a removal that ends nests at most once per device
StackLimit == MaxId + 1

NoCall ==
    [status |-> "idle", stack |-> <<>>, dev |-> NoId, targets |-> {},
     quiet |-> TRUE, host0 |-> NoId, record0 |-> FALSE, orphan |-> FALSE,
     upserted |-> FALSE]

\* a filter that finds no provided device
providedDevicesNone(os, pd, id) == {}

\* Object.values(this.pluginDevices).filter(pluginDevice =>
\*     getState(pluginDevice, providerId) === device._id)
providedDevices(os, pd, id) == {x \in pd : getState(os[x], "providerId") = id}

\* a call that goes through the first provided device alone
FrameFirstOnly(os, pd, id) ==
    [dev |-> id,
     todo |-> IF providedDevices(os, pd, id) = {} THEN <<>>
              ELSE <<Min(providedDevices(os, pd, id))>>,
     pc |-> "loop"]

\* the call removeDevice(id) at its start: the provided devices still to go
\* through, in the order of the table
Frame(os, pd, id) ==
    [dev |-> id, todo |-> SortedSeq(providedDevices(os, pd, id)), pc |-> "loop"]

RECURSIVE Descendants(_, _, _)
\* the devices whose providerId points, in one or more steps, into S
Descendants(os, pd, S) ==
    Bind({x \in pd : getState(os[x], "providerId") \in S} \ S,
         LAMBDA more : IF more = {} THEN S
                       ELSE Bind(S \cup more, LAMBDA T : Descendants(os, pd, T)))

Top(c) == calls[c].stack[Len(calls[c].stack)]

SetTop(c, f) == [calls[c].stack EXCEPT ![Len(calls[c].stack)] = f]

\* a host is registered for the plugin and its worker runs
PluginReachable(pluginId) ==
    /\ plugins[pluginId] # NoId
    /\ hosts[plugins[pluginId]].worker = "running"

\* a caller (PluginComponent, a plugin through DeviceManager) removes a
\* device it looked up in the table
StartRemove(c, id) ==
    /\ Idle
    /\ calls[c].status # "active"
    /\ id \in pluginDevices
    /\ calls' = [calls EXCEPT ![c] =
                    [status |-> "active",
                     stack |-> <<Frame(objs, pluginDevices, id)>>,
                     dev |-> id,
                     targets |-> Descendants(objs, pluginDevices, {id}),
                     quiet |-> TRUE,
                     host0 |-> plugins[objs[id].pluginId],
                     record0 |-> (objs[id].pluginId \in dsPlugins),
                     orphan |-> ~PluginReachable(objs[id].pluginId),
                     upserted |-> FALSE]]
    /\ running' = c
    /\ lastInv' = NoInvalidation
    /\ UNCHANGED obsVars
    /\ UNCHANGED <<hostVars, devVars, devices>>

\* the end of a frame: the caller's await returns in the same turn of the
\* event loop, or the call is complete
PopFrame(c) ==
    LET n == Len(calls[c].stack)
    IN IF n = 1
       THEN /\ calls' = [calls EXCEPT ![c].status = "done", ![c].stack = <<>>,
                                      ![c].host0 = NoId, ![c].record0 = FALSE]
            /\ running' = 0
       ELSE /\ calls' = [calls EXCEPT ![c].stack = SubSeq(@, 1, n - 1)]
            /\ running' = c

\* an own removal that forgets to delete the table entry
RemoveOwnKeepsEntry(os, pd, ds, dv, id) ==
    [objs |-> [os EXCEPT ![id].hasState = FALSE, ![id].state = EmptyState],
     devices |-> invalidatePluginDevice(dv, id),
     pluginDevices |-> pd,
     dsDevices |-> dsRemove(ds, id)]

\* device.state = undefined; invalidatePluginDevice(device._id);
\* delete this.pluginDevices[device._id]; datastore.remove(device)
RemoveOwn(os, pd, ds, dv, id) ==
    [objs |-> [os EXCEPT ![id].hasState = FALSE, ![id].state = EmptyState],
     devices |-> invalidatePluginDevice(dv, id),
     pluginDevices |-> pd \ {id},
     dsDevices |-> dsRemove(ds, id)]

\* one step of the synchronous part of a frame: the next provided device
\* (skipped when it is the device itself, else removed by a nested call), or,
\* when none is left, the device's own removal up to await datastore.remove
RemoveLoop(c) ==
    /\ running = c
    /\ calls[c].status = "active"
    /\ Top(c).pc = "loop"
    /\ LET f == Top(c)
           n == Len(calls[c].stack)
       IN IF f.todo # <<>>
          THEN /\ LET provided == Head(f.todo)
                      rest == [f EXCEPT !.todo = Tail(f.todo)]
                  IN IF provided = f.dev
                     THEN calls' = [calls EXCEPT ![c].stack = SetTop(c, rest)]
                          /\ running' = c
                     ELSE IF n >= StackLimit
                     THEN calls' = [calls EXCEPT ![c].status = "failed",
                                                 ![c].stack = <<>>,
                                                 ![c].host0 = NoId,
                                                 ![c].record0 = FALSE]
                          /\ running' = 0
                     ELSE calls' = [calls EXCEPT ![c].stack =
                                      Append(SetTop(c, rest),
                                             Frame(objs, pluginDevices, provided))]
                          /\ running' = c
               /\ UNCHANGED <<devVars, devices>>
          ELSE /\ \E r \in {RemoveOwn(objs, pluginDevices, dsDevices, devices, f.dev)} :
                     /\ objs' = r.objs
                     /\ devices' = r.devices
                     /\ pluginDevices' = r.pluginDevices
                     /\ dsDevices' = r.dsDevices
               /\ nextId' = nextId
               /\ calls' = [calls EXCEPT ![c].stack =
                              SetTop(c, [f EXCEPT !.pc = "awaitRemove"])]
               /\ running' = 0
    /\ lastInv' = NoInvalidation
    /\ UNCHANGED obsVars
    /\ UNCHANGED hostVars

\* after await datastore.remove: the state manager forgets the device, the
\* mixins it provides are invalidated, then a plugin device takes its
\* plugin with it and any other device is reported to its plugin
RemoveResume(c, declined) ==
    /\ Idle
    /\ calls[c].status = "active"
    /\ Top(c).pc = "awaitRemove"
    /\ \E inv \in {invalidateMixins(devices, objs, pluginDevices, <<Top(c).dev>>,
                                     declined)} :
       LET f == Top(c)
           o == objs[f.dev]
           k == killPlugin(plugins, hosts, o.pluginId)
       IN /\ devices' = inv.after
          /\ lastInv' = inv
          /\ IF Falsy(o.nativeId)
             THEN /\ plugins' = k.plugins
                  /\ hosts' = k.hosts
                  /\ dsPlugins' = dsPlugins \ {o.pluginId}
                  /\ calls' = [calls EXCEPT ![c].stack =
                                 SetTop(c, [f EXCEPT !.pc = "awaitRemoveId"])]
                  /\ running' = 0
             ELSE /\ UNCHANGED hostVars
                  /\ IF plugins[o.pluginId] = NoId
                     THEN PopFrame(c)
                     ELSE /\ calls' = [calls EXCEPT ![c].stack =
                                         SetTop(c, [f EXCEPT !.pc = "awaitNotify"])]
                          /\ running' = 0
    /\ UNCHANGED devVars
    /\ UNCHANGED obsVars

\* after await datastore.removeId: rimraf of the plugin volume, and the end
RemoveResumeRemoveId(c) ==
    /\ Idle
    /\ calls[c].status = "active"
    /\ Top(c).pc = "awaitRemoveId"
    /\ PopFrame(c)
    /\ lastInv' = NoInvalidation
    /\ UNCHANGED obsVars
    /\ UNCHANGED <<hostVars, devVars, devices>>

\* after await plugin.remote.setNativeId: it returned, or it threw and the
\* error was logged
RemoveResumeNotify(c) ==
    /\ Idle
    /\ calls[c].status = "active"
    /\ Top(c).pc = "awaitNotify"
    /\ PopFrame(c)
    /\ lastInv' = NoInvalidation
    /\ UNCHANGED obsVars
    /\ UNCHANGED <<hostVars, devVars, devices>>

(***************************************************************************)
(* start(): the startup replay. boot is [pc, todo, visited, invoked,       *)
(* failed, cleared, found, written]: pc "devices" (in the for await over   *)
(* the persisted                                                           *)
(* PluginDevice records, todo the records still to come), "plugins" (in    *)
(* the for await over the persisted Plugin records), "done" (returned) or  *)
(* "aborted" (rejected). visited: the plugins whose iteration ran;         *)
(* invoked: the plugins runPlugin was called for; failed: the plugins      *)
(* whose iteration threw; cleared: the ids the cycle guard cleared; found:  *)
(* the PluginDevice records as start() found them in the store; written:   *)
(* the ids start() called datastore.upsert for.                            *)
(***************************************************************************)
\* ScryptedStateManager.getSystemState(): one key per registered device
getSystemState(os, pd) == pd

RECURSIVE MixinClosure(_, _, _)
\* the ids reached from the set S through the mixins lists of the registered
\* devices
MixinClosure(os, pd, S) ==
    Bind(UNION {Range(getState(os[d], "mixins")) : d \in S \cap pd} \ S,
         LAMBDA more : IF more = {} THEN S
                       ELSE Bind(S \cup more, LAMBDA T : MixinClosure(os, pd, T)))

\* hasMixinCycle(scrypted, id): the device is reached from its own mixins
hasMixinCycle(os, pd, id) ==
    /\ id \in pd
    /\ id \in MixinClosure(os, pd, Range(getState(os[id], "mixins")))

RECURSIVE CycleGuard(_, _, _)
\* for (const id of Object.keys(getSystemState()))
\*     if (hasMixinCycle(this, id)) setState(pluginDevice, mixins, [])
CycleGuard(os, pd, ids) ==
    IF ids = <<>> THEN os
    ELSE Bind(IF hasMixinCycle(os, pd, Head(ids))
              THEN [os EXCEPT ![Head(ids)] = setState(@, "mixins", <<>>)]
              ELSE os,
              LAMBDA o : CycleGuard(o, pd, Tail(ids)))

\* a first loop that loads the record as it is
RepairNone(o) == [obj |-> o, dirty |-> FALSE]

\* the body of the first loop of start() for a record that has a state: the
\* repaired object and whether it is dirty
Repair(o) ==
    LET mixins == getState(o, "mixins")
        d1 == NoId \in Range(mixins)
        o1 == IF d1 THEN setState(o, "mixins", SeqFilterOut(mixins, {NoId})) ELSE o
        interfaces == getState(o1, "providedInterfaces")
        d2 == Falsy(o1.nativeId) /\ ScryptedPlugin \notin Range(interfaces)
        o2 == IF d2
              THEN setState(o1, "providedInterfaces",
                            sortInterfaces(Append(interfaces, ScryptedPlugin)))
              ELSE o1
        d3 == getState(o2, "pluginId") \in {Undefined, Null, ""}
        o3 == IF d3 THEN setState(o2, "pluginId", o2.pluginId) ELSE o2
        d4 == getState(o3, "nativeId") # o3.nativeId
        o4 == IF d4 THEN setState(o3, "nativeId", o3.nativeId) ELSE o3
    IN [obj |-> o4, dirty |-> d1 \/ d2 \/ d3 \/ d4]

\* one iteration of for await (const pluginDevice of getAll(PluginDevice))
StartLoadDevice ==
    /\ boot.pc = "devices"
    /\ boot.todo # <<>>
    /\ LET id == Head(boot.todo)
           o == dsDevices[id]
           r == Repair(o)
       IN IF ~o.hasState
          THEN /\ dsDevices' = dsRemove(dsDevices, id)
               /\ boot' = [boot EXCEPT !.todo = Tail(@)]
               /\ UNCHANGED <<objs, pluginDevices>>
          ELSE /\ pluginDevices' = pluginDevices \cup {id}
               /\ objs' = [objs EXCEPT ![id] = r.obj]
               /\ dsDevices' = IF r.dirty THEN dsUpsert(dsDevices, id, r.obj)
                               ELSE dsDevices
               /\ boot' = [boot EXCEPT !.todo = Tail(@),
                             !.written = IF r.dirty THEN @ \cup {id} ELSE @]
    /\ lastInv' = NoInvalidation
    /\ UNCHANGED <<hostVars, nextId, devices, callVars, lastUp, lastOp>>

\* the end of the first loop: the cycle guard runs over every key of the
\* system state, then the iteration over the Plugin records is requested
StartCycleGuard ==
    /\ boot.pc = "devices"
    /\ boot.todo = <<>>
    /\ \E os \in {CycleGuard(objs, pluginDevices,
                             SortedSeq(getSystemState(objs, pluginDevices)))} :
          /\ objs' = os
          /\ boot' = [boot EXCEPT !.pc = "plugins",
                        !.cleared = {id \in pluginDevices : os[id] # objs[id]}]
    /\ lastInv' = NoInvalidation
    /\ UNCHANGED <<hostVars, nextId, pluginDevices, dsDevices, devices,
                   callVars, lastUp, lastOp>>

\* getAll(Plugin): the records in key order
PluginOrder == <<"p1", "p2">>

\* the Plugin records start() has still to visit
PluginsToStart == {i \in DOMAIN PluginOrder :
                     PluginOrder[i] \in dsPlugins \ boot.visited}

\* runPlugin(plugin) when new PluginHost(...) throws: the old host is
\* killed, the proxies are invalidated and no host is registered
runPluginThrows(pl, hs, dv, os, pd, pluginId) ==
    LET k == killPlugin(pl, hs, pluginId)
        found == SortedSeq(findPluginDevices(os, pd, pluginId))
    IN [plugins |-> k.plugins, hosts |-> k.hosts,
        devices |-> InvalidateEach(dv, found)]

\* an error of one iteration that leaves the loop
PluginErrorRethrown(b, p) == [b EXCEPT !.pc = "aborted"]

\* catch (e) { console.error('error starting plugin', ...) }: the error of
\* plugin p is logged and the loop goes on
PluginErrorCaught(b, p) == [b EXCEPT !.failed = @ \cup {p}]

\* one iteration of for await (const plugin of getAll(Plugin)): the info of
\* the plugin's root device is set (a TypeError when the plugin has no
\* device without native id) and the plugin is run; launches: whether
\* new PluginHost succeeds
StartRunPlugin(launches) ==
    /\ boot.pc = "plugins"
    /\ PluginsToStart # {}
    /\ LET p == PluginOrder[Min(PluginsToStart)]
           b == [boot EXCEPT !.visited = @ \cup {p}]
           pluginDevice == findPluginDevice(objs, pluginDevices, p, Undefined)
       IN IF pluginDevice = NoId
          THEN /\ boot' = PluginErrorCaught(b, p)
               /\ UNCHANGED <<plugins, hosts, devices>>
          ELSE IF launches
          THEN \E r \in {runPlugin(plugins, hosts, devices, objs, pluginDevices, p)} :
                  /\ plugins' = r.plugins
                  /\ hosts' = r.hosts
                  /\ devices' = r.devices
                  /\ boot' = [b EXCEPT !.invoked = @ \cup {p}]
          ELSE \E r \in {runPluginThrows(plugins, hosts, devices, objs,
                                         pluginDevices, p)} :
                  /\ plugins' = r.plugins
                  /\ hosts' = r.hosts
                  /\ devices' = r.devices
                  /\ boot' = PluginErrorCaught([b EXCEPT !.invoked = @ \cup {p}], p)
    /\ lastInv' = NoInvalidation
    /\ UNCHANGED <<dsPlugins, devVars, callVars, lastUp, lastOp>>

\* the end of the second loop: start() returns
StartReturn ==
    /\ boot.pc = "plugins"
    /\ PluginsToStart = {}
    /\ boot' = [boot EXCEPT !.pc = "done"]
    /\ lastInv' = NoInvalidation
    /\ UNCHANGED <<hostVars, devVars, devices, callVars, lastUp, lastOp>>

(***************************************************************************)
(* Supervisor calls, observed: lastOp is [op, pluginId, log, pending], the *)
(* steps of the last observed call in their order and the ids of the       *)
(* PluginDevice records whose datastore.upsert promise, issued by the      *)
(* call, has not resolved.                                                 *)
(***************************************************************************)
\* the runtime process has not exited
Alive == lastOp.op # "killall"

\* runPlugin(plugin) by a caller that read the Plugin record
RunPluginObserved(pluginId) ==
    /\ Idle
    /\ pluginId \in dsPlugins
    /\ \E r \in {runPlugin(plugins, hosts, devices, objs, pluginDevices, pluginId)} :
          /\ plugins' = r.plugins
          /\ hosts' = [h \in DOMAIN r.hosts |->
                         IF /\ r.hosts[h].pluginId = pluginId
                            /\ r.hosts[h].timer = "armed"
                            /\ r.hosts[h].elapsed < RestartTimeout
                         THEN [r.hosts[h] EXCEPT !.superseded = TRUE]
                         ELSE r.hosts[h]]
          /\ devices' = r.devices
          /\ lastOp' = [op |-> "runPlugin", pluginId |-> pluginId,
                        log |-> r.log, pending |-> {}]
    /\ Disturb
    /\ lastInv' = NoInvalidation
    /\ UNCHANGED <<dsPlugins, devVars, lastUp, boot>>

\* killPlugin(pluginId), of a plugin with or without a registered host
KillPluginObserved(pluginId) ==
    /\ Idle
    /\ \E k \in {killPlugin(plugins, hosts, pluginId)} :
          /\ plugins' = k.plugins
          /\ hosts' = k.hosts
          /\ lastOp' = [op |-> "killPlugin", pluginId |-> pluginId,
                        log |-> k.log, pending |-> {}]
    /\ Disturb
    /\ lastInv' = NoInvalidation
    /\ UNCHANGED <<dsPlugins, devVars, devices, lastUp, boot>>

\* an installPlugin that runs the plugin before it upserts the root device
installPluginLaunchesFirst(pl, hs, dv, os, pd, ds, next, pluginId, interfaces) ==
    LET r == runPlugin(pl, hs, dv, os, pd, pluginId)
        u == upsertDevice(os, pd, ds, next, pluginId,
                          [nativeId |-> Undefined, providerNativeId |-> Undefined,
                           interfaces |-> interfaces])
    IN [objs |-> u.objs, pluginDevices |-> u.pluginDevices,
        dsDevices |-> u.dsDevices, nextId |-> u.nextId, id |-> u.id,
        plugins |-> r.plugins, hosts |-> r.hosts, devices |-> r.devices,
        log |-> r.log \o <<<<"upsert", u.id, r.plugins[pluginId]>>>>]

\* installPlugin(plugin): the device of the manifest is upserted as the root
\* device of the plugin, which hands the record to the store, and the
\* plugin is run. The tables after the call, the id of the root record and
\* the steps of the call in their order
installPlugin(pl, hs, dv, os, pd, ds, next, pluginId, interfaces) ==
    LET u == upsertDevice(os, pd, ds, next, pluginId,
                          [nativeId |-> Undefined, providerNativeId |-> Undefined,
                           interfaces |-> interfaces])
        r == runPlugin(pl, hs, dv, u.objs, u.pluginDevices, pluginId)
    IN [objs |-> u.objs, pluginDevices |-> u.pluginDevices,
        dsDevices |-> u.dsDevices, nextId |-> u.nextId, id |-> u.id,
        plugins |-> r.plugins, hosts |-> r.hosts, devices |-> r.devices,
        log |-> <<<<"upsert", u.id, pl[pluginId]>>>> \o r.log]

\* installNpm's await datastore.upsert(plugin), then installPlugin(plugin).
\* The promise of the datastore.upsert of the root record, which
\* upsertDevice returns, is not awaited
InstallPluginObserved(pluginId, interfaces) ==
    /\ Idle
    /\ \E n \in {installPlugin(plugins, hosts, devices, objs, pluginDevices,
                                dsDevices, nextId, pluginId, interfaces)} :
          /\ n.nextId <= MaxId
          /\ objs' = n.objs
          /\ pluginDevices' = n.pluginDevices
          /\ dsDevices' = n.dsDevices
          /\ nextId' = n.nextId
          /\ plugins' = n.plugins
          /\ hosts' = n.hosts
          /\ devices' = n.devices
          /\ lastOp' = [op |-> "installPlugin", pluginId |-> pluginId,
                        log |-> n.log, pending |-> {n.id}]
    /\ dsPlugins' = dsPlugins \cup {pluginId}
    /\ Disturb
    /\ lastInv' = NoInvalidation
    /\ UNCHANGED <<lastUp, boot>>

\* the store has written the record: the promise of the datastore.upsert
\* that the observed call issued resolves
StorePersisted ==
    /\ lastOp.pending # {}
    /\ \E ids \in {SortedSeq(lastOp.pending)} :
          lastOp' = [lastOp EXCEPT
                        !.pending = {},
                        !.log = @ \o [i \in DOMAIN ids |->
                                        <<"persisted", ids[i],
                                          plugins[lastOp.pluginId]>>]]
    /\ lastInv' = NoInvalidation
    /\ UNCHANGED <<hostVars, devVars, devices, callVars, lastUp, boot>>

\* a killall that exits before it kills
killallExitsFirst(pl, hs) ==
    [hosts |-> hs, log |-> <<<<"exit", NoId, NoId>>>>]

\* killall(): host?.kill() for every host of the plugins table, then
\* process.exit()
killall(pl, hs) ==
    LET registered == SortedSeq({pl[p] : p \in PluginIds} \ {NoId})
    IN [hosts |-> [h \in DOMAIN hs |->
                     IF h \in Range(registered) THEN HostKill(hs[h]) ELSE hs[h]],
        log |-> [i \in DOMAIN registered |-> <<"kill", registered[i], registered[i]>>]
                  \o <<<<"exit", NoId, NoId>>>>]

\* process.on('SIGINT' / 'SIGTERM', () => this.killall()): the signal
\* arrives between two turns of the event loop
Killall ==
    /\ Idle
    /\ \E k \in {killall(plugins, hosts)} :
          /\ hosts' = k.hosts
          /\ lastOp' = [op |-> "killall", pluginId |-> Undefined,
                        log |-> k.log, pending |-> {}]
    /\ lastInv' = NoInvalidation
    /\ UNCHANGED <<plugins, dsPlugins, devVars, devices, callVars, lastUp, boot>>

(***************************************************************************)
(* Specifications.                                                         *)
(***************************************************************************)
\* the runtime after construction: no plugin, no device, no proxy
Init ==
    /\ plugins = [p \in PluginIds |-> NoId]
    /\ hosts = <<>>
    /\ dsPlugins = {}
    /\ nextId = 0
    /\ objs = <<>>
    /\ pluginDevices = {}
    /\ dsDevices = <<>>
    /\ devices = <<>>
    /\ calls = [c \in CallIds |-> NoCall]
    /\ running = 0
    /\ lastInv = NoInvalidation
    /\ lastUp = NoUpsert
    /\ lastOp = NoOp
    /\ boot = Started

\* the model has room for one more PluginHost instance
HostRoom(max) == Len(hosts) < max

RECURSIVE Installed(_, _)
\* the runtime after installPlugin of each plugin of the sequence, with the
\* empty manifest interface list
Installed(st, ps) ==
    IF ps = <<>> THEN st
    ELSE Bind(upsertDevice(st.objs, st.pluginDevices, st.dsDevices, st.nextId,
                           Head(ps),
                           [nativeId |-> Undefined, providerNativeId |-> Undefined,
                            interfaces |-> <<>>]),
         LAMBDA u :
            Bind(runPlugin(st.plugins, st.hosts, st.devices, u.objs,
                           u.pluginDevices, Head(ps)),
                 LAMBDA r :
                    Bind([plugins |-> r.plugins, hosts |-> r.hosts,
                          dsPlugins |-> st.dsPlugins \cup {Head(ps)},
                          nextId |-> u.nextId, objs |-> u.objs,
                          pluginDevices |-> u.pluginDevices,
                          dsDevices |-> u.dsDevices, devices |-> r.devices],
                         LAMBDA n : Installed(n, Tail(ps)))))

Constructed ==
    [plugins |-> [p \in PluginIds |-> NoId], hosts |-> <<>>, dsPlugins |-> {},
     nextId |-> 0, objs |-> <<>>, pluginDevices |-> {}, dsDevices |-> <<>>,
     devices |-> <<>>]

\* the plugins of the supervisor specifications
HostPlugins == <<"p1">>

\* the runtime with the plugins installed and running
InitHost ==
    \E st \in {Installed(Constructed, HostPlugins)} :
       /\ plugins = st.plugins
       /\ hosts = st.hosts
       /\ dsPlugins = st.dsPlugins
       /\ nextId = st.nextId
       /\ objs = st.objs
       /\ pluginDevices = st.pluginDevices
       /\ dsDevices = st.dsDevices
       /\ devices = st.devices
       /\ calls = [c \in CallIds |-> NoCall]
       /\ running = 0
       /\ lastInv = NoInvalidation
       /\ lastUp = NoUpsert
       /\ lastOp = NoOp
       /\ boot = Started

\* the supervisor: the installed plugins are restarted, killed and removed
\* by the user while workers exit and restart callbacks run
NextHost ==
    \/ \E p \in Range(HostPlugins) : HostRoom(MaxHosts) /\ RunPlugin(p)
    \/ \E p \in Range(HostPlugins) : KillPlugin(p)
    \/ \E h \in HostIds : WorkerExit(h)
    \/ \E h \in HostIds : OnWorkerExit(h)
    \/ Tick
    \/ \E h \in HostIds : TimerFire(h)
    \/ \E h \in HostIds : TimerLookup(h)
    \/ \E h \in HostIds : HostRoom(MaxHosts) /\ TimerResume(h)
    \/ \E c \in CallIds, id \in pluginDevices : StartRemove(c, id)
    \/ \E c \in CallIds : RemoveLoop(c)
    \/ \E c \in CallIds : RemoveResume(c, {})
    \/ \E c \in CallIds : RemoveResumeRemoveId(c)

SpecHost == InitHost /\ [][NextHost]_vars

\* the plugins of the restart specification
RestartPlugins == <<"p1", "p2">>

\* restarts still owed a host: a worker that exited and was not killed, or
\* a restart callback that has not finished
PendingRestarts ==
    Cardinality({h \in HostIds :
        \/ hosts[h].worker = "dead" /\ ~hosts[h].killed
        \/ hosts[h].timer \in {"armed", "lookup", "resume"}})

\* a worker exits while the model has room for the host that replaces it
WorkerExitWithRoom(h) ==
    /\ Len(hosts) + PendingRestarts < MaxRestartHosts
    /\ WorkerExit(h)

InitRestart ==
    \E st \in {Installed(Constructed, RestartPlugins)} :
       /\ plugins = st.plugins
       /\ hosts = st.hosts
       /\ dsPlugins = st.dsPlugins
       /\ nextId = st.nextId
       /\ objs = st.objs
       /\ pluginDevices = st.pluginDevices
       /\ dsDevices = st.dsDevices
       /\ devices = st.devices
       /\ calls = [c \in CallIds |-> NoCall]
       /\ running = 0
       /\ lastInv = NoInvalidation
       /\ lastUp = NoUpsert
       /\ lastOp = NoOp
       /\ boot = Started

\* workers exit on their own and nothing but the restart callbacks touches
\* the plugins
NextRestart ==
    \/ \E h \in HostIds : WorkerExitWithRoom(h)
    \/ \E h \in HostIds : OnWorkerExit(h)
    \/ Tick
    \/ \E h \in HostIds : TimerFire(h)
    \/ \E h \in HostIds : TimerLookup(h)
    \/ \E h \in HostIds : TimerResume(h)

\* the event loop delivers every exit event, lets time pass, runs every due
\* timer and resumes every callback whose datastore read was answered
SpecRestart ==
    /\ InitRestart
    /\ [][NextRestart]_vars
    /\ WF_vars(Tick)
    /\ \A h \in 1..MaxRestartHosts :
          /\ WF_vars(h \in HostIds /\ OnWorkerExit(h))
          /\ WF_vars(h \in HostIds /\ TimerFire(h))
          /\ WF_vars(h \in HostIds /\ TimerLookup(h))
          /\ WF_vars(h \in HostIds /\ TimerResume(h))

\* the plugin of the device and mixin specifications
DevPlugin == "p1"

\* sequences of at most n different elements of S
Lists(S, n) ==
    {l \in UNION {[1..k -> S] : k \in 0..n} :
        \A i \in DOMAIN l, j \in DOMAIN l : i # j => l[i] # l[j]}

\* the devices of the mixin specification: the plugin and three devices it
\* declared
MixinNativeIds == <<"a", "b", "c">>

RECURSIVE Declared(_, _)
\* the tables after upsertDevice of each native id of the sequence, each
\* device provided by the plugin
Declared(st, ns) ==
    IF ns = <<>> THEN st
    ELSE Bind(upsertDevice(st.objs, st.pluginDevices, st.dsDevices, st.nextId,
                           DevPlugin,
                           [nativeId |-> Head(ns), providerNativeId |-> Undefined,
                            interfaces |-> <<>>]),
         LAMBDA u :
            Bind([st EXCEPT !.objs = u.objs, !.pluginDevices = u.pluginDevices,
                            !.dsDevices = u.dsDevices, !.nextId = u.nextId],
                 LAMBDA n : Declared(n, Tail(ns))))

\* the runtime after start() loaded the plugin and its devices and ran the
\* plugin, so that every device has its proxy pair. Each device has a
\* persisted mixins list; start()'s cycle guard left no cycle, so the devices
\* are numbered such that a device's mixins have higher ids
InitMixin ==
    \E st \in {Declared(Installed(Constructed, <<DevPlugin>>), MixinNativeIds)} :
    \E mix \in [st.pluginDevices -> Lists(st.pluginDevices, MaxMixins)] :
       /\ \A d \in st.pluginDevices : \A i \in DOMAIN mix[d] : mix[d][i] > d
       /\ \E os \in {[d \in DOMAIN st.objs |-> setState(st.objs[d], "mixins", mix[d])]} :
             /\ objs = os
             /\ dsDevices = os
             /\ devices = GetEach(st.devices, st.pluginDevices,
                                  SortedSeq(st.pluginDevices))
       /\ plugins = st.plugins
       /\ hosts = st.hosts
       /\ dsPlugins = st.dsPlugins
       /\ nextId = st.nextId
       /\ pluginDevices = st.pluginDevices
       /\ calls = [c \in CallIds |-> NoCall]
       /\ running = 0
       /\ lastInv = NoInvalidation
       /\ lastUp = NoUpsert
       /\ lastOp = NoOp
       /\ boot = Started

\* the device whose canMixin may answer null, and the providers that
\* decline on one rebuild
Decliners == {4}

Declines == {{}} \cup {{m} : m \in Decliners}

\* the Sets that invalidateMixins is called with, in insertion order
IdSets ==
    {<<a>> : a \in pluginDevices}
        \cup {l \in {<<a, b>> : a \in pluginDevices, b \in pluginDevices} : l[1] # l[2]}

\* first access to a proxy (probe, a property read, a method call):
\* ensureProxy builds the chain that is not built
Probe(id, declined) ==
    /\ Idle
    /\ id \in DOMAIN devices
    /\ ~devices[id].built
    /\ devices' = rebuildMixinTable(devices, objs, pluginDevices, id, declined)
    /\ lastInv' = NoInvalidation
    /\ UNCHANGED obsVars
    /\ UNCHANGED <<hostVars, devVars, callVars>>

\* invalidatePluginDevice(id) of a proxy whose chain is built
InvalidatePluginDevice(id) ==
    /\ Idle
    /\ id \in DOMAIN devices
    /\ devices[id].built
    /\ devices' = invalidatePluginDevice(devices, id)
    /\ lastInv' = NoInvalidation
    /\ UNCHANGED obsVars
    /\ UNCHANGED <<hostVars, devVars, callVars>>

\* invalidateMixins(new Set(ids))
InvalidateMixins(ids, declined) ==
    /\ Idle
    /\ \E inv \in {invalidateMixins(devices, objs, pluginDevices, ids, declined)} :
          /\ devices' = inv.after
          /\ lastInv' = inv
    /\ UNCHANGED <<hostVars, devVars, callVars>>
    /\ UNCHANGED obsVars

\* the caller of invalidateMixins has the returned set
InvalidateMixinsReturn ==
    /\ lastInv.called
    /\ lastInv' = NoInvalidation
    /\ UNCHANGED obsVars
    /\ UNCHANGED <<hostVars, devVars, devices, callVars>>

\* the mixin engine: chains are built on access and invalidated, one
\* operation after the other
NextMixin ==
    \/ ~lastInv.called /\ \E id \in pluginDevices, declined \in Declines :
                              Probe(id, declined)
    \/ ~lastInv.called /\ \E id \in pluginDevices : InvalidatePluginDevice(id)
    \/ ~lastInv.called /\ \E ids \in IdSets, declined \in Declines :
                              InvalidateMixins(ids, declined)
    \/ InvalidateMixinsReturn

SpecMixin == InitMixin /\ [][NextMixin]_vars

\* mixins lists of the devices "a", "b" and "c" (ids 2, 3, 4) in which
\* devices are mixin providers of one another or of themselves
CycleMixins ==
    {<< <<3>>, <<2>>, <<>> >>,
     << <<2>>, <<>>, <<2>> >>,
     << <<3>>, <<4>>, <<2>> >>,
     << <<3, 4>>, <<4, 2>>, <<2, 3>> >>,
     << <<2, 3>>, <<3, 2>>, <<3>> >>}

\* the runtime with the plugin running, its devices "a", "b" and "c"
\* declared and their mixins lists set to name one another; every device
\* has its proxy pair
InitCycle ==
    \E st \in {Declared(Installed(Constructed, <<DevPlugin>>), MixinNativeIds)} :
    \E mix \in CycleMixins :
       /\ \E os \in {[d \in DOMAIN st.objs |->
                         IF d \in 2..4
                         THEN setState(st.objs[d], "mixins", mix[d - 1])
                         ELSE st.objs[d]]} :
             /\ objs = os
             /\ dsDevices = os
       /\ devices = GetEach(st.devices, st.pluginDevices, SortedSeq(st.pluginDevices))
       /\ plugins = st.plugins
       /\ hosts = st.hosts
       /\ dsPlugins = st.dsPlugins
       /\ nextId = st.nextId
       /\ pluginDevices = st.pluginDevices
       /\ calls = [c \in CallIds |-> NoCall]
       /\ running = 0
       /\ lastInv = NoInvalidation
       /\ lastUp = NoUpsert
       /\ lastOp = NoOp
       /\ boot = Started

\* the mixin engine over chains of devices that mix one another
SpecCycle == InitCycle /\ [][NextMixin]_vars

\* Sets given to invalidateMixins that hold undefined, which is the
\* mixinProviderId of the last entry of every chain
UndefinedIdSets ==
    {<<NoId>>} \cup {<<NoId, a>> : a \in pluginDevices}
               \cup {<<a, NoId>> : a \in pluginDevices}

\* the mixin engine, with invalidateMixins calls whose Set holds undefined
NextTerminal ==
    \/ ~lastInv.called /\ \E id \in pluginDevices, declined \in Declines :
                              Probe(id, declined)
    \/ ~lastInv.called /\ \E ids \in UndefinedIdSets, declined \in Declines :
                              InvalidateMixins(ids, declined)
    \/ InvalidateMixinsReturn

SpecTerminal == InitMixin /\ [][NextTerminal]_vars

\* getDevice(id) by a caller of the runtime (an RPC of a plugin, the HTTP
\* layer)
GetDevice(id) ==
    /\ Idle
    /\ devices' = getDevice(devices, pluginDevices, id)
    /\ lastInv' = NoInvalidation
    /\ UNCHANGED obsVars
    /\ UNCHANGED <<hostVars, devVars, callVars>>

\* the runtime with the plugin installed and running and its devices "a"
\* and "b" declared, "a" with or without "b" as its mixin; the root device
\* has its proxy pair, by runPlugin
InitProxy ==
    \E st \in {Declared(Installed(Constructed, <<DevPlugin>>), <<"a", "b">>)} :
    \E mix \in {<<>>, <<3>>} :
       /\ \E os \in {[st.objs EXCEPT ![2] = setState(@, "mixins", mix)]} :
             /\ objs = os
             /\ dsDevices = os
       /\ plugins = st.plugins
       /\ hosts = st.hosts
       /\ dsPlugins = st.dsPlugins
       /\ nextId = st.nextId
       /\ pluginDevices = st.pluginDevices
       /\ devices = st.devices
       /\ calls = [c \in CallIds |-> NoCall]
       /\ running = 0
       /\ lastInv = NoInvalidation
       /\ lastUp = NoUpsert
       /\ lastOp = NoOp
       /\ boot = Started

\* the proxy table: proxies are fetched, their chains built and
\* invalidated, and the plugin is restarted
NextProxy ==
    \/ \E id \in pluginDevices : GetDevice(id)
    \/ \E id \in pluginDevices, declined \in Declines : Probe(id, declined)
    \/ \E id \in pluginDevices : InvalidatePluginDevice(id)
    \/ \E ids \in IdSets, declined \in Declines : InvalidateMixins(ids, declined)
    \/ HostRoom(MaxHosts) /\ RunPlugin(DevPlugin)

SpecProxy == InitProxy /\ [][NextProxy]_vars

\* what plugin p1 declares in the supervisor-call specification
RunDeclarations ==
    [nativeId : {"b"}, providerNativeId : {Undefined}, interfaces : {<<>>}]

\* the runtime with plugin p1 installed and running and its device "a"
\* declared
InitRun ==
    \E st \in {Declared(Installed(Constructed, <<DevPlugin>>), <<"a">>)} :
       /\ plugins = st.plugins
       /\ hosts = st.hosts
       /\ dsPlugins = st.dsPlugins
       /\ nextId = st.nextId
       /\ objs = st.objs
       /\ pluginDevices = st.pluginDevices
       /\ dsDevices = st.dsDevices
       /\ devices = st.devices
       /\ calls = [c \in CallIds |-> NoCall]
       /\ running = 0
       /\ lastInv = NoInvalidation
       /\ lastUp = NoUpsert
       /\ lastOp = NoOp
       /\ boot = Started

\* the supervisor calls, observed: plugins are installed, run and killed,
\* workers exit, the plugin reports a device, until a signal ends the
\* process
NextRun ==
    \/ Alive /\ \E p \in PluginIds : HostRoom(MaxHosts) /\ RunPluginObserved(p)
    \/ Alive /\ \E p \in PluginIds : KillPluginObserved(p)
    \/ Alive /\ \E p \in PluginIds :
                   HostRoom(MaxHosts) /\ InstallPluginObserved(p, <<>>)
    \/ Alive /\ StorePersisted
    \/ Alive /\ \E h \in HostIds : WorkerExit(h)
    \/ Alive /\ \E h \in HostIds : OnWorkerExit(h)
    \/ Alive /\ \E d \in RunDeclarations : UpsertDevice(DevPlugin, d)
    \/ Alive /\ Killall

SpecRun == InitRun /\ [][NextRun]_vars

\* a method call or property read of a capability on the proxy of a device
\* whose chain is built; the record of the access is <<capability, device
\* id, the entry that served it>>
Access(id, capability) ==
    /\ Idle
    /\ id \in DOMAIN devices
    /\ devices[id].built
    /\ lastOp' = [op |-> "access", pluginId |-> Undefined,
                  log |-> <<<<capability, id,
                              dispatch(devices, objs, id, capability)>>>>,
                  pending |-> {}]
    /\ lastInv' = NoInvalidation
    /\ UNCHANGED <<hostVars, devVars, devices, callVars, lastUp, boot>>

\* the mixins lists of device "a" in the dispatch specification
DispatchMixins == {<<>>, <<3>>, <<4>>, <<3, 4>>, <<4, 3>>}

\* the runtime with the plugin running and its devices "a" (id 2, which
\* provides OnOff), "b" (id 3) and "c" (id 4) declared, "a" with a mixins
\* list over "b" and "c"; every device has its proxy pair
InitDispatch ==
    \E st \in {Declared(Installed(Constructed, <<DevPlugin>>), MixinNativeIds)} :
    \E u \in {upsertDevice(st.objs, st.pluginDevices, st.dsDevices, st.nextId,
                           DevPlugin,
                           [nativeId |-> "a", providerNativeId |-> Undefined,
                            interfaces |-> <<"OnOff">>])} :
    \E mix \in DispatchMixins :
       /\ \E os \in {[u.objs EXCEPT ![u.id] = setState(@, "mixins", mix)]} :
             /\ objs = os
             /\ dsDevices = os
       /\ devices = GetEach(st.devices, u.pluginDevices, SortedSeq(u.pluginDevices))
       /\ plugins = st.plugins
       /\ hosts = st.hosts
       /\ dsPlugins = st.dsPlugins
       /\ nextId = u.nextId
       /\ pluginDevices = u.pluginDevices
       /\ calls = [c \in CallIds |-> NoCall]
       /\ running = 0
       /\ lastInv = NoInvalidation
       /\ lastUp = NoUpsert
       /\ lastOp = NoOp
       /\ boot = Started

\* chains are built on first access and invalidated, and capabilities are
\* accessed on the proxies
NextDispatch ==
    \/ \E id \in pluginDevices, declined \in Declines : Probe(id, declined)
    \/ \E id \in pluginDevices : InvalidatePluginDevice(id)
    \/ \E id \in pluginDevices, capability \in Range(InterfaceOrder) :
          Access(id, capability)

SpecDispatch == InitDispatch /\ [][NextDispatch]_vars

\* what the plugin declares in the device specification
DevNativeIds == {Undefined, Null, "", "a", "b"}

DevProviderNativeIds == {Undefined, "a"}

DevDeclarations ==
    [nativeId : DevNativeIds, providerNativeId : DevProviderNativeIds,
     interfaces : {<<>>}]

\* device lifecycle: the running plugin reports devices while devices and
\* the plugin itself are removed
NextDev ==
    \/ \E d \in DevDeclarations : UpsertDevice(DevPlugin, d)
    \/ \E c \in CallIds, id \in pluginDevices : StartRemove(c, id)
    \/ \E c \in CallIds : RemoveLoop(c)
    \/ \E c \in CallIds : RemoveResume(c, {})
    \/ \E c \in CallIds : RemoveResumeRemoveId(c)
    \/ \E c \in CallIds : RemoveResumeNotify(c)

SpecDev == InitHost /\ [][NextDev]_vars

\* mixin providers are removed: chains are built on access and invalidated
\* while devices of the plugin, or the plugin with all of them, are removed
NextUnmix ==
    \/ \E id \in pluginDevices, declined \in Declines : Probe(id, declined)
    \/ \E id \in pluginDevices : InvalidateMixins(<<id>>, {})
    \/ \E c \in CallIds, id \in pluginDevices : StartRemove(c, id)
    \/ \E c \in CallIds : RemoveLoop(c)
    \/ \E c \in CallIds : RemoveResume(c, {})
    \/ \E c \in CallIds : RemoveResumeRemoveId(c)
    \/ \E c \in CallIds : RemoveResumeNotify(c)

SpecUnmix == InitMixin /\ [][NextUnmix]_vars

\* what the plugin declares in the orphan specification: its root device
\* and a device "a", each provided by the other or by the root
OrphanDeclarations ==
    [nativeId : {Undefined, "a"}, providerNativeId : {Undefined, "a"},
     interfaces : {<<>>}]

\* devices are removed while the plugin that owns them is killed by the
\* user, or its worker exits, or it is still running
NextOrphan ==
    \/ \E d \in OrphanDeclarations : UpsertDevice(DevPlugin, d)
    \/ KillPlugin(DevPlugin)
    \/ \E h \in HostIds : WorkerExit(h)
    \/ \E c \in CallIds, id \in pluginDevices : StartRemove(c, id)
    \/ \E c \in CallIds : RemoveLoop(c)
    \/ \E c \in CallIds : RemoveResume(c, {})
    \/ \E c \in CallIds : RemoveResumeRemoveId(c)
    \/ \E c \in CallIds : RemoveResumeNotify(c)

SpecOrphan == InitHost /\ [][NextOrphan]_vars

\* what the plugin declares in the identity specification
IdentityDeclarations ==
    [nativeId : {Undefined, Null, "", "a"}, providerNativeId : {Undefined},
     interfaces : {<<>>}]

\* the plugin reports devices, each call observed, while devices and the
\* plugin itself are removed
NextIdentity ==
    \/ \E d \in IdentityDeclarations : UpsertDeviceObserved(DevPlugin, d)
    \/ \E c \in CallIds, id \in pluginDevices : StartRemove(c, id)
    \/ \E c \in CallIds : RemoveLoop(c)
    \/ \E c \in CallIds : RemoveResume(c, {})
    \/ \E c \in CallIds : RemoveResumeRemoveId(c)
    \/ \E c \in CallIds : RemoveResumeNotify(c)

SpecIdentity == InitHost /\ [][NextIdentity]_vars

\* what the plugin declares in the upsert specification: its root device
\* and a device "c1" provided by the root, with any of these interface lists
UpsertNativeIds == {Undefined, Null, "c1"}

UpsertInterfaces == {<<>>, <<"OnOff">>, <<"Battery">>}

UpsertDeclarations ==
    [nativeId : UpsertNativeIds, providerNativeId : {Undefined},
     interfaces : UpsertInterfaces]

\* the runtime with plugin p1 running, its root device (id 1) and a device
\* "m" (id 2) that the root may have in its mixins list; with the mixin, the
\* interfaces of the root are the ones a chain rebuild resolved
InitUpsert ==
    \E st \in {Declared(Installed(Constructed, <<DevPlugin>>), <<"m">>)} :
    \E mixins \in {<<>>, <<2>>} :
    \E resolved \in {<<"ScryptedPlugin">>, <<"Battery", "ScryptedPlugin">>} :
       /\ mixins = <<>> => resolved = <<"ScryptedPlugin">>
       /\ \E os \in {[st.objs EXCEPT ![1] =
                        setState(setState(@, "mixins", mixins),
                                 "interfaces", resolved)]} :
             /\ objs = os
             /\ dsDevices = os
       /\ plugins = st.plugins
       /\ hosts = st.hosts
       /\ dsPlugins = st.dsPlugins
       /\ nextId = st.nextId
       /\ pluginDevices = st.pluginDevices
       /\ devices = st.devices
       /\ calls = [c \in CallIds |-> NoCall]
       /\ running = 0
       /\ lastInv = NoInvalidation
       /\ lastUp = NoUpsert
       /\ lastOp = NoOp
       /\ boot = Started

\* the plugin reports its devices, one call after the other, with no chain
\* rebuild in between
NextUpsert ==
    \E d \in UpsertDeclarations : UpsertDeviceObserved(DevPlugin, d)

SpecUpsert == InitUpsert /\ [][NextUpsert]_vars

\* declarations of the root device and of devices with a native id, the
\* empty string among them, with and without the ScryptedPlugin marker
\* among the declared interfaces
MarkerDeclarations ==
    [nativeId : {Undefined, "", "c1"}, providerNativeId : {Undefined},
     interfaces : {<<>>, <<"OnOff">>, <<"OnOff", "ScryptedPlugin">>}]

\* the plugin reports its devices, one call after the other
NextMarker ==
    \E d \in MarkerDeclarations : UpsertDeviceObserved(DevPlugin, d)

SpecMarker == InitUpsert /\ [][NextMarker]_vars

\* the store that start() finds: plugin p1 with its root device (id 1) and
\* a device "a" (id 2), and plugin p2 with its root device (id 3), as
\* upsertDevice persisted them
Persisted ==
    Bind(Declared(Installed(Constructed, <<"p1">>), <<"a">>),
         LAMBDA st : Installed(st, <<"p2">>))

\* the runtime as constructed over a store left by an earlier run: each
\* PluginDevice record has its state, with any mixins list, or has lost it;
\* any of the Plugin records may be gone
InitStart ==
    \E st \in {Persisted} :
    \E has \in [DOMAIN st.objs -> BOOLEAN] :
    \E mix \in [DOMAIN st.objs -> Lists(DOMAIN st.objs, MaxMixins)] :
    \E ps \in SUBSET PluginIds :
       /\ \A d \in DOMAIN st.objs : ~has[d] => mix[d] = <<>>
       /\ \E os \in {[d \in DOMAIN st.objs |->
                        IF has[d] THEN setState(st.objs[d], "mixins", mix[d])
                        ELSE [st.objs[d] EXCEPT !.hasState = FALSE,
                                                !.state = EmptyState]]} :
             /\ objs = os
             /\ dsDevices = os
             /\ boot = [pc |-> "devices", todo |-> SortedSeq(DOMAIN os),
                        visited |-> {}, invoked |-> {}, failed |-> {},
                        cleared |-> {}, found |-> os, written |-> {}]
       /\ dsPlugins = ps
       /\ nextId = st.nextId
       /\ plugins = [p \in PluginIds |-> NoId]
       /\ hosts = <<>>
       /\ pluginDevices = {}
       /\ devices = <<>>
       /\ calls = [c \in CallIds |-> NoCall]
       /\ running = 0
       /\ lastInv = NoInvalidation
       /\ lastUp = NoUpsert
       /\ lastOp = NoOp

\* the mixins lists of the dirty records: none, a null entry alone, null
\* entries between ids
RepairMixins == {<<>>, <<NoId>>, <<2, NoId, 1>>}

\* the record as an earlier version of the runtime may have left it: a null
\* entry in its mixins list, no ScryptedPlugin marker, no pluginId state
\* value, a nativeId state value of an earlier native id
Dirtied(o, mixins, marker, pluginId, stale) ==
    Bind(setState(o, "mixins", mixins),
         LAMBDA o1 :
            Bind(IF marker THEN o1
                 ELSE setState(o1, "providedInterfaces",
                               SeqFilterOut(getState(o1, "providedInterfaces"),
                                            {ScryptedPlugin})),
                 LAMBDA o2 :
                    Bind(IF pluginId THEN o2 ELSE setState(o2, "pluginId", Undefined),
                         LAMBDA o3 :
                            IF stale THEN setState(o3, "nativeId", "old") ELSE o3)))

\* the runtime as constructed over a store that holds plugin p1, its root
\* device (id 1) and its device "a" (id 2), each record without state or
\* with any of the dirty shapes
InitRepair ==
    \E st \in {Declared(Installed(Constructed, <<DevPlugin>>), <<"a">>)} :
    \E has \in [DOMAIN st.objs -> BOOLEAN] :
    \E mix \in [DOMAIN st.objs -> RepairMixins] :
    \E flags \in [DOMAIN st.objs -> [marker : BOOLEAN, pluginId : BOOLEAN,
                                     stale : BOOLEAN]] :
       /\ \A d \in DOMAIN st.objs :
             ~has[d] => /\ mix[d] = <<>>
                        /\ flags[d] = [marker |-> TRUE, pluginId |-> TRUE,
                                       stale |-> FALSE]
       /\ \E os \in {[d \in DOMAIN st.objs |->
                        IF has[d]
                        THEN Dirtied(st.objs[d], mix[d], flags[d].marker,
                                     flags[d].pluginId, flags[d].stale)
                        ELSE [st.objs[d] EXCEPT !.hasState = FALSE,
                                                !.state = EmptyState]]} :
             /\ objs = os
             /\ dsDevices = os
             /\ boot = [pc |-> "devices", todo |-> SortedSeq(DOMAIN os),
                        visited |-> {}, invoked |-> {}, failed |-> {},
                        cleared |-> {}, found |-> os, written |-> {}]
       /\ dsPlugins = st.dsPlugins
       /\ nextId = st.nextId
       /\ plugins = [p \in PluginIds |-> NoId]
       /\ hosts = <<>>
       /\ pluginDevices = {}
       /\ devices = <<>>
       /\ calls = [c \in CallIds |-> NoCall]
       /\ running = 0
       /\ lastInv = NoInvalidation
       /\ lastUp = NoUpsert
       /\ lastOp = NoOp

\* the startup replay, alone
NextStart ==
    \/ StartLoadDevice
    \/ StartCycleGuard
    \/ \E launches \in BOOLEAN : StartRunPlugin(launches)
    \/ StartReturn

SpecStart == InitStart /\ [][NextStart]_vars

\* the startup replay over dirty records
SpecRepair == InitRepair /\ [][NextStart]_vars

\* the whole runtime: every operation, from the runtime as constructed. The
\* specifications above are parts of it, each from a state with the plugins
\* it is about installed
Next ==
    \/ \E p \in PluginIds : HostRoom(MaxHosts) /\ InstallPlugin(p, <<>>)
    \/ \E p \in PluginIds : HostRoom(MaxHosts) /\ RunPlugin(p)
    \/ \E p \in PluginIds : KillPlugin(p)
    \/ \E p \in PluginIds, d \in DevDeclarations : UpsertDevice(p, d)
    \/ \E h \in HostIds : WorkerExit(h)
    \/ \E h \in HostIds : OnWorkerExit(h)
    \/ Tick
    \/ \E h \in HostIds : TimerFire(h)
    \/ \E h \in HostIds : TimerLookup(h)
    \/ \E h \in HostIds : HostRoom(MaxHosts) /\ TimerResume(h)
    \/ \E c \in CallIds, id \in pluginDevices : StartRemove(c, id)
    \/ \E c \in CallIds : RemoveLoop(c)
    \/ \E c \in CallIds, declined \in Declines : RemoveResume(c, declined)
    \/ \E c \in CallIds : RemoveResumeRemoveId(c)
    \/ \E c \in CallIds : RemoveResumeNotify(c)
    \/ \E id \in pluginDevices, declined \in Declines : Probe(id, declined)
    \/ \E id \in pluginDevices : InvalidatePluginDevice(id)
    \/ \E ids \in IdSets, declined \in Declines : InvalidateMixins(ids, declined)

Spec == Init /\ [][Next]_vars

(***************************************************************************)
(* Claims about invalidateMixins. lastInv is the call of the last step:    *)
(* lastInv.before[d].table is the chain of device d when the call began,   *)
(* outermost wrapper first.                                                *)
(***************************************************************************)
\* the chain of device d held, when the call began, a wrapper of provider
\* t[j].mixinProviderId at position j above the device itself
Wraps(d, j) ==
    /\ lastInv.before[d].built
    /\ j \in 1..(Len(lastInv.before[d].table) - 1)

\* provider m can be mixed into device d by the rebuild of the call
Mixable(d, m) ==
    /\ m \in pluginDevices
    /\ objs[m].hasState
    /\ m \notin lastInv.declined
    /\ m \in Range(getState(objs[d], "mixins"))

\* C1: when invalidateMixins is called with the provider id of a wrapper B
\* of a chain, B and every wrapper A outside B are released through
\* invalidateEntry, the device of the chain is in the returned set and is
\* rebuilt by the second pass, and after the call its chain is built and
\* again holds a wrapper of every released provider that can still be mixed
C1_ChainInvalidatedAndRebuilt ==
    lastInv.called =>
        \A d \in DOMAIN lastInv.before : \A j \in DOMAIN lastInv.before[d].table :
            (Wraps(d, j) /\ lastInv.before[d].table[j].mixinProviderId \in Range(lastInv.ids))
                => /\ \A i \in 1..j :
                        <<d, lastInv.before[d].table[i].mixinProviderId>>
                            \in Range(lastInv.released)
                   /\ d \in Range(lastInv.ret)
                   /\ d \in Range(lastInv.rebuilt)
                   /\ lastInv.after[d].built
                   /\ \A i \in 1..j :
                        Mixable(d, lastInv.before[d].table[i].mixinProviderId)
                            => FindIndex(lastInv.after[d].table,
                                         lastInv.before[d].table[i].mixinProviderId) # 0

\* a chain A wraps B wraps the device, the call names B alone, and the
\* rebuilt chain holds A and B again
C1_Witness ==
    /\ lastInv.called
    /\ \E d \in DOMAIN lastInv.before :
          /\ Wraps(d, 2)
          /\ Len(lastInv.before[d].table) = 3
          /\ lastInv.ids = <<lastInv.before[d].table[2].mixinProviderId>>
          /\ lastInv.released = <<<<d, lastInv.before[d].table[1].mixinProviderId>>,
                                  <<d, lastInv.before[d].table[2].mixinProviderId>>>>
          /\ lastInv.spliced[d].table = <<Entry(NoId)>>
          /\ lastInv.after[d].table = lastInv.before[d].table

\* the ids the call invalidates: the ones it is given and the devices it
\* returns
Invalidated == Range(lastInv.ids) \cup Range(lastInv.ret)

\* no entry of the chain of d, when the call began, is of an invalidated id
Independent(d) ==
    \A i \in DOMAIN lastInv.before[d].table :
        lastInv.before[d].table[i].mixinProviderId \notin Invalidated

\* C2: a device proxy whose chain has no entry of an id given to
\* invalidateMixins or of a device the call invalidates is left alone: its
\* chain is the same after the first pass and after the second, none of its
\* entries is released, and it is neither returned nor rebuilt
C2_IndependentUntouched ==
    lastInv.called =>
        /\ DOMAIN lastInv.after = DOMAIN lastInv.before
        /\ \A d \in DOMAIN lastInv.before :
              Independent(d)
                  => /\ lastInv.spliced[d] = lastInv.before[d]
                     /\ lastInv.after[d] = lastInv.before[d]
                     /\ \A k \in DOMAIN lastInv.released : lastInv.released[k][1] # d
                     /\ d \notin Range(lastInv.ret)
                     /\ d \notin Range(lastInv.rebuilt)

\* a call that released entries of one chain and invalidated its device in
\* turn, next to a device with wrappers of its own that is independent
C2_Witness ==
    /\ lastInv.called
    /\ lastInv.released # <<>>
    /\ Len(lastInv.ret) >= 2
    /\ \E d \in DOMAIN lastInv.before :
          /\ lastInv.before[d].built
          /\ Len(lastInv.before[d].table) >= 2
          /\ Independent(d)
          /\ lastInv.after[d] = lastInv.before[d]

RECURSIVE ReleasedBy(_)
\* the invalidateEntry calls of a sequence of matches, in order
ReleasedBy(matches) ==
    IF matches = <<>> THEN <<>>
    ELSE [i \in DOMAIN Head(matches).removed |->
             <<Head(matches).device, Head(matches).removed[i].mixinProviderId>>]
         \o ReleasedBy(Tail(matches))

\* the matches of the call that come before match k and are of its device
EarlierMatches(k) ==
    {j \in 1..(k - 1) : lastInv.matches[j].device = lastInv.matches[k].device}

\* the chain that match k of the call found is the chain of the device when
\* the call began or what the match before it on that device left
ChainAtMatch(k) ==
    IF EarlierMatches(k) = {}
    THEN lastInv.before[lastInv.matches[k].device].table
    ELSE lastInv.matches[CHOOSE j \in EarlierMatches(k) :
                            \A i \in EarlierMatches(k) : i <= j].left

\* C31: when the first pass of invalidateMixins finds provider id p at
\* index i of the chain of a device and i is not the last index, exactly
\* the entries from the head of the chain through index i are removed and
\* each of them is handed to invalidateEntry once, in chain order; the
\* entries after index i stay in the chain in their order. The
\* invalidateEntry calls of the whole call are those of its matches, none
\* is made twice, and the chains after the pass are what the matches left
C31_SpliceThroughMatch ==
    lastInv.called =>
        /\ \A k \in DOMAIN lastInv.matches :
              /\ lastInv.matches[k].chain = ChainAtMatch(k)
              /\ lastInv.matches[k].foundIndex
                    = FindIndex(lastInv.matches[k].chain, lastInv.matches[k].id)
              /\ lastInv.matches[k].foundIndex < Len(lastInv.matches[k].chain)
                    => /\ lastInv.matches[k].removed
                             = SubSeq(lastInv.matches[k].chain, 1,
                                      lastInv.matches[k].foundIndex)
                       /\ lastInv.matches[k].left
                             = SubSeq(lastInv.matches[k].chain,
                                      lastInv.matches[k].foundIndex + 1,
                                      Len(lastInv.matches[k].chain))
              /\ (\A j \in DOMAIN lastInv.matches :
                      lastInv.matches[j].device = lastInv.matches[k].device => j <= k)
                    => lastInv.spliced[lastInv.matches[k].device].table
                          = lastInv.matches[k].left
        /\ lastInv.released = ReleasedBy(lastInv.matches)
        /\ \A i \in DOMAIN lastInv.released : \A j \in DOMAIN lastInv.released :
              lastInv.released[i] = lastInv.released[j] => i = j

\* a chain of two wrappers was matched at its head: the outer wrapper was
\* released and the inner one stayed on the device
C31_Witness ==
    /\ lastInv.called
    /\ \E k \in DOMAIN lastInv.matches :
          /\ Len(lastInv.matches[k].chain) = 3
          /\ lastInv.matches[k].foundIndex = 1
          /\ lastInv.matches[k].removed = <<lastInv.matches[k].chain[1]>>
          /\ lastInv.matches[k].left = Tail(lastInv.matches[k].chain)
          /\ lastInv.released
                = <<<<lastInv.matches[k].device, lastInv.matches[k].id>>>>

\* C32: when the entry that a match of invalidateMixins finds is the last
\* entry of the chain, the match is skipped: the chain is the same after
\* the match, the match hands no entry to invalidateEntry, and a device
\* whose matches are all of the last entry has, after the first pass, the
\* chain it had when the call began and no invalidateEntry call
C32_TerminalMatchSkipped ==
    lastInv.called =>
        /\ \A k \in DOMAIN lastInv.matches :
              lastInv.matches[k].foundIndex = Len(lastInv.matches[k].chain)
                  => /\ lastInv.matches[k].chain
                           = lastInv.before[lastInv.matches[k].device].table
                               \/ EarlierMatches(k) # {}
                     /\ lastInv.matches[k].left = lastInv.matches[k].chain
                     /\ lastInv.matches[k].removed = <<>>
        /\ \A d \in DOMAIN lastInv.before :
              (\A k \in DOMAIN lastInv.matches :
                  lastInv.matches[k].device = d
                      => lastInv.matches[k].foundIndex = Len(lastInv.matches[k].chain))
                  => /\ lastInv.spliced[d] = lastInv.before[d]
                     /\ \A i \in DOMAIN lastInv.released : lastInv.released[i][1] # d

\* a call with undefined among its ids matched the last entry of a chain
\* that holds two wrappers; the chain went through the first pass as it was
C32_Witness ==
    /\ lastInv.called
    /\ NoId \in Range(lastInv.ids)
    /\ \E k \in DOMAIN lastInv.matches :
          /\ lastInv.matches[k].id = NoId
          /\ Len(lastInv.matches[k].chain) = 3
          /\ lastInv.matches[k].foundIndex = 3
          /\ lastInv.matches[k].left = lastInv.matches[k].chain
          /\ lastInv.spliced[lastInv.matches[k].device]
                = lastInv.before[lastInv.matches[k].device]
          /\ lastInv.matches[k].device \in Range(lastInv.ret)

\* the chain of a proxy holds a wrapper of provider m
HoldsWrapper(h, m) ==
    \E j \in 1..(Len(h.table) - 1) : h.table[j].mixinProviderId = m

\* C33: when the first pass of an invalidateMixins call ends, no chain of
\* the proxy table holds a wrapper whose mixinProviderId is one of the ids
\* given to the call or one of the ids it returns; when the call is the
\* one removeDevice makes for the device it removed, no chain holds a
\* wrapper of that device after the call either, and when a removeDevice
\* call is complete no chain holds a wrapper of a device it removed
C33_NoStaleEntry ==
    /\ lastInv.called
          => /\ \A d \in DOMAIN lastInv.spliced :
                   \A m \in Range(lastInv.ids) \cup Range(lastInv.ret) :
                      ~HoldsWrapper(lastInv.spliced[d], m)
             /\ \A m \in Range(lastInv.ids) \ pluginDevices :
                   \A d \in DOMAIN devices : ~HoldsWrapper(devices[d], m)
    /\ \A c \in CallIds :
          calls[c].status = "done"
              => \A m \in calls[c].targets :
                    /\ m \notin pluginDevices
                    /\ \A d \in DOMAIN devices : ~HoldsWrapper(devices[d], m)

\* removeDevice removed a mixin provider that a chain held as its outer
\* wrapper, over a wrapper of another provider and the device: after the
\* invalidation of the removal the chain is built without it
C33_Witness ==
    /\ lastInv.called
    /\ \E c \in CallIds : calls[c].status = "active" /\ lastInv.ids = <<Top(c).dev>>
    /\ \E d \in pluginDevices :
          /\ Len(lastInv.before[d].table) = 3
          /\ lastInv.before[d].table[1].mixinProviderId = lastInv.ids[1]
          /\ lastInv.ids[1] \notin pluginDevices
          /\ lastInv.ids[1] \in Range(getState(objs[d], "mixins"))
          /\ devices[d].built
          /\ devices[d].table = Tail(lastInv.before[d].table)

\* the number of times the first pass of the call popped id x
Pops(x) == Cardinality({i \in DOMAIN lastInv.log : lastInv.log[i] = <<"pop", x>>})

LiveHost(h) ==
    /\ h \in HostIds
    /\ ~hosts[h].killed
    /\ hosts[h].worker = "running"
    /\ plugins[hosts[h].pluginId] = h

C4_ManualRestartCancels ==
    \A h \in HostIds :
        hosts[h].superseded => hosts[h].timer \in {"armed", "cancelled"}

C4_Witness ==
    \E h \in HostIds :
        /\ hosts[h].superseded
        /\ hosts[h].timer = "cancelled"
        /\ LiveHost(plugins[hosts[h].pluginId])

\* C5: a restart callback that runs the plugin kills or replaces no host
\* other than the one whose exit scheduled it
C5_RestartReplacesOnlyOwnHost ==
    \A h \in HostIds :
        hosts[h].timer = "restarted" => hosts[h].replaced \in {NoId, h}

\* C6: no host is registered for a plugin id whose Plugin record no longer
\* exists
C6_NoHostWithoutRecord ==
    \A p \in PluginIds : plugins[p] # NoId => p \in dsPlugins

\* C7: a host that is not killed is the one registered for its plugin id in
\* the plugins table, so each plugin id has at most one such host and every
\* host that runPlugin replaced was killed
C7_OneLiveHost ==
    \A h \in HostIds : ~hosts[h].killed => plugins[hosts[h].pluginId] = h

\* a restart callback has run the plugin, the user has restarted it too, and
\* the host now registered is alive
C7_Witness ==
    \E h \in HostIds, n \in HostIds :
        /\ hosts[h].timer = "restarted"
        /\ hosts[n].superseded
        /\ \E m \in HostIds : m > h /\ m > n /\ LiveHost(m)

(***************************************************************************)
(* Claims about removeDevice.                                              *)
(***************************************************************************)
\* a removeDevice call returns on this step, and no other operation of the
\* runtime ran between its start and its return
Completes(c) ==
    /\ calls[c].status = "active"
    /\ calls'[c].status = "done"
    /\ calls[c].quiet

\* C8: when a removeDevice(d) that nothing interleaved with has returned,
\* neither d nor any device whose providerId pointed to d, in one or more
\* steps, when the call began is in pluginDevices or in the persistent store
C8_CascadeRemoval ==
    \A c \in CallIds :
        (calls[c].status = "done" /\ calls[c].quiet)
            => calls[c].targets \cap (pluginDevices \cup DOMAIN dsDevices) = {}

\* a removal that took the device and at least two devices below it
C8_Witness ==
    \E c \in CallIds :
        /\ calls[c].status = "done"
        /\ calls[c].quiet
        /\ Cardinality(calls[c].targets) >= 3

\* C9: a removeDevice of a device that has a nativeId, once returned, has
\* left the host of the owning plugin registered and its Plugin record in the
\* store
C9_NativeDeviceKeepsPlugin ==
    [][\A c \in CallIds :
          (Completes(c) /\ objs[calls[c].dev].nativeId # Undefined)
              => /\ plugins'[objs[calls[c].dev].pluginId] = calls[c].host0
                 /\ calls[c].record0 => objs[calls[c].dev].pluginId \in dsPlugins']_vars

\* C10: a removeDevice of the plugin-root device of plugin P, once returned,
\* has left no PluginDevice with pluginId P in pluginDevices, no host
\* registered for P and no Plugin record of P
C10_PluginRemovalCascades ==
    [][\A c \in CallIds :
          (Completes(c) /\ objs[calls[c].dev].nativeId = Undefined)
              => LET P == objs[calls[c].dev].pluginId
                 IN /\ \A x \in pluginDevices' : objs'[x].pluginId # P
                    /\ plugins'[P] = NoId
                    /\ P \notin dsPlugins']_vars
(***************************************************************************)
(* Claims about start().                                                   *)
(***************************************************************************)
\* the persisted records of x and y name each other in their mixins lists
MixEachOther(x, y) ==
    /\ x # y
    /\ x \in DOMAIN dsDevices /\ y \in DOMAIN dsDevices
    /\ y \in Range(getState(dsDevices[x], "mixins"))
    /\ x \in Range(getState(dsDevices[y], "mixins"))

\* C11: when start has returned, every two loaded devices X and Y whose
\* persisted records mix each other both have an empty mixins list; start
\* never ends in an error
C11_CycleClearsBoth ==
    /\ boot.pc # "aborted"
    /\ boot.pc = "done" =>
          \A x \in pluginDevices, y \in pluginDevices :
              MixEachOther(x, y)
                  => /\ getState(objs[x], "mixins") = <<>>
                     /\ getState(objs[y], "mixins") = <<>>

\* C20: an error of one plugin's iteration never ends start, and when start
\* has returned every persisted plugin was visited, each visited plugin
\* whose root device was loaded had runPlugin invoked, also after an earlier
\* plugin failed
C20_PluginErrorsIsolated ==
    /\ boot.pc # "aborted"
    /\ boot.pc = "done" =>
          /\ boot.visited = dsPlugins
          /\ \A p \in dsPlugins :
                findPluginDevice(objs, pluginDevices, p, Undefined) # NoId
                    => p \in boot.invoked

\* start has returned after the first plugin failed, by its info update or
\* by its launch, and the second plugin was run and has a host
C20_Witness ==
    /\ boot.pc = "done"
    /\ dsPlugins = {"p1", "p2"}
    /\ "p1" \in boot.failed
    /\ "p2" \in boot.invoked \ boot.failed
    /\ plugins["p2"] # NoId
    /\ plugins["p1"] = NoId

\* C21: when start has returned, every Plugin record of the store whose
\* host could be constructed has a host registered in the plugins table
C21_EveryPluginRuns ==
    boot.pc = "done" =>
        \A p \in dsPlugins :
            ~(p \in boot.invoked /\ p \in boot.failed) => plugins[p] # NoId

\* the record, as start() found it, has a shape that the first loop repairs
NeedsRepair(was) ==
    \/ NoId \in Range(getState(was, "mixins"))
    \/ was.nativeId \in {Undefined, Null, ""}
          /\ ScryptedPlugin \notin Range(getState(was, "providedInterfaces"))
    \/ getState(was, "pluginId") \in {Undefined, Null, ""}
    \/ getState(was, "nativeId") # was.nativeId

\* the record has none of the dirty shapes
Clean(o) ==
    /\ NoId \notin Range(getState(o, "mixins"))
    /\ getState(o, "nativeId") = o.nativeId
    /\ getState(o, "pluginId") = o.pluginId
    /\ o.pluginId \in PluginIds
    /\ o.nativeId \in {Undefined, Null}
          => ScryptedPlugin \in Range(getState(o, "providedInterfaces"))

\* C22: every device that the first loop of start has loaded has none of the
\* dirty shapes; a record that had one was written to the store, where it
\* has none either, and a record that had none was not written and is in the
\* store as it was found
C22_RepairPass ==
    \A id \in pluginDevices :
        id \notin Range(boot.todo)
            => /\ Clean(objs[id])
               /\ id \in DOMAIN dsDevices
               /\ NeedsRepair(boot.found[id]) <=> id \in boot.written
               /\ id \in boot.written
                     => /\ Clean(dsDevices[id])
                        /\ dsDevices[id] # boot.found[id]
               /\ id \notin boot.written => dsDevices[id] = boot.found[id]

\* start has returned after it repaired a record that had a null entry in
\* its mixins list, no marker, no pluginId state value and a stale nativeId
\* state value, and loaded another record that needed no repair
C22_Witness ==
    /\ boot.pc = "done"
    /\ \E id \in pluginDevices :
          /\ id \in boot.written
          /\ NoId \in Range(getState(boot.found[id], "mixins"))
          /\ getState(boot.found[id], "mixins") # <<NoId>>
          /\ ScryptedPlugin \notin Range(getState(boot.found[id], "providedInterfaces"))
          /\ getState(boot.found[id], "pluginId") = Undefined
          /\ getState(boot.found[id], "nativeId") = "old"
          /\ ScryptedPlugin \in Range(getState(dsDevices[id], "providedInterfaces"))
    /\ \E id \in pluginDevices :
          /\ id \notin boot.written
          /\ dsDevices[id] = boot.found[id]

\* C23: when start has returned, every device whose mixins list the cycle
\* guard cleared has an empty mixins list in memory and in the store
C23_CycleClearedDurably ==
    boot.pc = "done" =>
        \A id \in boot.cleared :
            /\ getState(objs[id], "mixins") = <<>>
            /\ id \in DOMAIN dsDevices
            /\ getState(dsDevices[id], "mixins") = <<>>

(***************************************************************************)
(* Claims about upsertDevice. lastUp is the last observed call; its prev   *)
(* is the call observed before it.                                         *)
(***************************************************************************)
\* the last call had the same input as the call before it
Repeated ==
    /\ lastUp.called
    /\ lastUp.prev # <<>>
    /\ lastUp.prev[1].pluginId = lastUp.pluginId
    /\ lastUp.prev[1].device = lastUp.device

\* C12: the second of two upsertDevice calls with identical input returns
\* interfacesChanged = false, finds the record of the first call, and leaves
\* its _id and its providedInterfaces and interfaces state as they were
C12_UpsertIdempotent ==
    Repeated =>
        /\ ~lastUp.interfacesChanged
        /\ lastUp.id = lastUp.prev[1].id
        /\ lastUp.found = lastUp.id
        /\ objs[lastUp.id].id = lastUp.before.id
        /\ getState(objs[lastUp.id], "providedInterfaces")
              = getState(lastUp.before, "providedInterfaces")
        /\ getState(objs[lastUp.id], "interfaces")
              = getState(lastUp.before, "interfaces")

\* a repeated call for a device with mixins whose interfaces hold more than
\* the call provides
C12_Witness ==
    /\ Repeated
    /\ getState(objs[lastUp.id], "mixins") # <<>>
    /\ lastUp.device.interfaces = <<"OnOff">>
    /\ "Battery" \in Range(getState(objs[lastUp.id], "interfaces"))
    /\ Cardinality(pluginDevices) = 3

\* the position of an interface in the sort order
Pos(iface) == CHOOSE i \in DOMAIN InterfaceOrder : InterfaceOrder[i] = iface

Sorted(ifaces) ==
    \A i \in DOMAIN ifaces, j \in DOMAIN ifaces :
        i < j => Pos(ifaces[i]) < Pos(ifaces[j])

\* interfaces of device id holds every interface provided in an observed
\* call for it, and is sorted
KeepsSeen(id) ==
    /\ lastUp.seen[id] \subseteq Range(getState(objs[id], "interfaces"))
    /\ Sorted(getState(objs[id], "interfaces"))

\* C13, as stated: for every device, after any number of upsertDevice calls
\* with no chain rebuild in between, interfaces is a superset of every
\* providedInterfaces of those calls, and is sorted
C13_UnionMonotone ==
    lastUp.called => \A id \in pluginDevices : KeepsSeen(id)

\* C13, amended: the same for every device whose mixins list is not empty
C13_UnionMonotoneWithMixins ==
    lastUp.called =>
        \A id \in pluginDevices :
            getState(objs[id], "mixins") # <<>> => KeepsSeen(id)

\* a device with mixins was declared with OnOff, then with Battery, then
\* with nothing, and still has both
C13_Witness ==
    /\ lastUp.called
    /\ lastUp.device.interfaces = <<>>
    /\ getState(objs[lastUp.id], "mixins") # <<>>
    /\ getState(objs[lastUp.id], "providedInterfaces") = <<"ScryptedPlugin">>
    /\ lastUp.seen[lastUp.id] = {"Battery", "OnOff", "ScryptedPlugin"}
    /\ getState(objs[lastUp.id], "interfaces") = <<"Battery", "OnOff", "ScryptedPlugin">>

\* C37: an upsertDevice call for a device whose mixins list is not empty
\* leaves every interface that the interfaces value held before the call in
\* the interfaces value after it, whatever the call declares, and leaves
\* the mixins list as it was
C37_NeverShrinksWithMixins ==
    (lastUp.called /\ getState(lastUp.before, "mixins") # <<>>)
        => /\ Range(getState(lastUp.before, "interfaces"))
                 \subseteq Range(getState(objs[lastUp.id], "interfaces"))
           /\ getState(objs[lastUp.id], "mixins") = getState(lastUp.before, "mixins")

\* a device with mixins whose interfaces held Battery and OnOff, OnOff
\* being provided, was declared with no interface: providedInterfaces lost
\* OnOff and interfaces did not
C37_Witness ==
    /\ lastUp.called
    /\ getState(lastUp.before, "mixins") # <<>>
    /\ lastUp.device.interfaces = <<>>
    /\ "OnOff" \in Range(getState(lastUp.before, "providedInterfaces"))
    /\ "OnOff" \notin Range(getState(objs[lastUp.id], "providedInterfaces"))
    /\ getState(lastUp.before, "interfaces") = <<"Battery", "OnOff", "ScryptedPlugin">>
    /\ getState(objs[lastUp.id], "interfaces") = getState(lastUp.before, "interfaces")

\* the plugin declared its root device with interfaces [OnOff] and, in the
\* next call, the device "c1" provided by the root
Scenario ==
    /\ lastUp.called
    /\ lastUp.device.nativeId = "c1"
    /\ lastUp.device.providerNativeId \in {Undefined, Null}
    /\ lastUp.prev # <<>>
    /\ lastUp.prev[1].pluginId = lastUp.pluginId
    /\ lastUp.prev[1].device.nativeId \in {Undefined, Null}
    /\ lastUp.prev[1].device.interfaces = <<"OnOff">>

\* C14: after upsertDevice of the root device r with [OnOff] and of the
\* child c with native id "c1", findPluginDevice(P, "c1") is c, the
\* providerId of c is the id of r, and the interfaces of r hold the
\* ScryptedPlugin marker and OnOff
C14_RootAndChild ==
    Scenario =>
        LET c == lastUp.id
            r == lastUp.prev[1].id
        IN /\ c # r
           /\ findPluginDevice(objs, pluginDevices, lastUp.pluginId, "c1") = c
           /\ objs[c].nativeId = "c1"
           /\ objs[r].nativeId = Undefined
           /\ getState(objs[c], "providerId") = r
           /\ {ScryptedPlugin, "OnOff"} \subseteq Range(getState(objs[r], "interfaces"))

\* the scenario, with the child created by its call and declared with
\* [Battery]
C14_Witness ==
    /\ Scenario
    /\ lastUp.found = NoId
    /\ lastUp.device.interfaces = <<"Battery">>
    /\ getState(objs[lastUp.id], "interfaces") = <<"Battery">>
\* C16: the table key of every record is its _id, no two records of the
\* table have the same _id or the same plugin id and native id, and an
\* upsertDevice call made when a live record has its plugin id and native id
\* returns that record, with the _id it had
C16_IdentityStable ==
    /\ \A x \in pluginDevices : objs[x].id = x
    /\ \A x \in pluginDevices, y \in pluginDevices :
          x # y => /\ objs[x].id # objs[y].id
                   /\ ~(/\ objs[x].pluginId = objs[y].pluginId
                        /\ objs[x].nativeId = objs[y].nativeId)
    /\ (lastUp.called /\ lastUp.live # {})
          => /\ lastUp.live = {lastUp.id}
             /\ lastUp.before.id = lastUp.id
             /\ objs[lastUp.id].id = lastUp.id

\* the plugin declared a device again that was declared, removed and
\* declared anew before: the call found the record of the new declaration,
\* whose _id is not the _id of the removed record
C16_Witness ==
    /\ lastUp.called
    /\ lastUp.live = {lastUp.id}
    /\ lastUp.id \in pluginDevices
    /\ \E c \in CallIds : \E t \in calls[c].targets :
          /\ calls[c].status = "done"
          /\ t # lastUp.id
          /\ t \notin pluginDevices
          /\ objs[t].pluginId = objs[lastUp.id].pluginId
          /\ objs[t].nativeId = objs[lastUp.id].nativeId
          /\ objs[t].nativeId = "a"

\* C19: on every invalidateMixins call, the work list is empty when the
\* second pass begins and no rebuildMixinTable call precedes a pop of the
\* work list; the second pass calls rebuildMixinTable once for each id of
\* the returned set and for no other id; the returned set holds every device
\* whose chain, when the call began, had an entry of a given or of a returned
\* id; and the call runs from the proxy table of the state before it to the
\* proxy table of the state after it, with no other operation in between
C19_PassesSequential ==
    [][(lastInv'.called /\ lastInv' # lastInv)
          => /\ lastInv'.pending = <<>>
             /\ \A i \in DOMAIN lastInv'.log : \A j \in DOMAIN lastInv'.log :
                   (lastInv'.log[i][1] = "rebuild" /\ lastInv'.log[j][1] = "pop")
                       => j < i
             /\ lastInv'.rebuilt = lastInv'.ret
             /\ SelectSeq(lastInv'.log, LAMBDA e : e[1] = "rebuild")
                   = [i \in DOMAIN lastInv'.ret |-> <<"rebuild", lastInv'.ret[i]>>]
             /\ \A i \in DOMAIN lastInv'.ret : \A j \in DOMAIN lastInv'.ret :
                   lastInv'.ret[i] = lastInv'.ret[j] => i = j
             /\ \A d \in DOMAIN lastInv'.before :
                   (/\ lastInv'.before[d].built
                    /\ \E j \in DOMAIN lastInv'.before[d].table :
                          lastInv'.before[d].table[j].mixinProviderId
                              \in Range(lastInv'.ids) \cup Range(lastInv'.ret))
                       => d \in Range(lastInv'.ret)
             /\ devices = lastInv'.before
             /\ devices' = lastInv'.after]_vars

\* a call whose first pass went on from a device found for the given id to
\* a device that mixes that device in, and whose second pass rebuilt both
C19_Witness ==
    /\ lastInv.called
    /\ Len(lastInv.ids) = 1
    /\ Len(lastInv.ret) = 2
    /\ lastInv.rebuilt = lastInv.ret
    /\ \A j \in DOMAIN lastInv.before[lastInv.ret[2]].table :
          lastInv.before[lastInv.ret[2]].table[j].mixinProviderId # lastInv.ids[1]
    /\ FindIndex(lastInv.before[lastInv.ret[2]].table, lastInv.ret[1]) # 0
    /\ lastInv.log[Len(lastInv.log) - 2][1] = "pop"
    /\ devices = lastInv.after

\* C24: on every step of the runtime each proxy pair of the devices table
\* is still in the table and is the same pair of objects; getDevice of an id
\* that has a pair leaves the table as it is, and no two ids share a pair
C24_OneProxyPerDevice ==
    [][/\ \A id \in DOMAIN devices :
             /\ id \in DOMAIN devices'
             /\ devices'[id].proxy = devices[id].proxy
             /\ getDevice(devices, pluginDevices, id) = devices
       /\ \A x \in DOMAIN devices' : \A y \in DOMAIN devices' :
             x # y => devices'[x].proxy # devices'[y].proxy]_vars

\* the plugin was restarted, which invalidated and fetched the proxies of
\* its devices, and an invalidateMixins call has just spliced and rebuilt
\* the chain of a device whose proxy is the pair created for it first
C24_Witness ==
    /\ Len(hosts) >= 2
    /\ DOMAIN devices = pluginDevices
    /\ lastInv.called
    /\ \E d \in DOMAIN lastInv.before :
          /\ lastInv.before[d].built
          /\ Len(lastInv.before[d].table) = 2
          /\ d \in Range(lastInv.ret)
          /\ devices[d].built
          /\ devices[d].proxy = lastInv.before[d].proxy
          /\ devices[d].proxy # d

(***************************************************************************)
(* Claims about the supervisor calls. On a step that an observed call      *)
(* takes, lastOp' is the record of the call, the unprimed variables are    *)
(* the state before it and the primed ones the state after it.             *)
(***************************************************************************)
\* the place of a step in runPlugin: replace, invalidate, launch, probe
Stage(step) ==
    IF step \in {"unregister", "kill"} THEN 1
    ELSE IF step = "invalidate" THEN 2
    ELSE IF step \in {"arm", "register"} THEN 3
    ELSE 4

\* the positions of the log of the call that hold the step for the subject
At(log, step, subject) ==
    {i \in DOMAIN log : log[i][1] = step /\ log[i][2] = subject}

\* C25: a runPlugin call first unregisters and kills the host that was
\* registered for the plugin, then invalidates the proxy of every device of
\* the plugin, then arms the auto-restart of the new host and registers it,
\* then probes every device of the plugin; every probe is made with the new
\* host registered, and every invalidated device is probed
C25_RunPluginOrder ==
    [][(lastOp'.op = "runPlugin" /\ lastOp' # lastOp)
          => \E log \in {lastOp'.log} :
             \E old \in {plugins[lastOp'.pluginId]} :
             \E new \in {plugins'[lastOp'.pluginId]} :
             \E mine \in {{id \in pluginDevices :
                              objs[id].pluginId = lastOp'.pluginId}} :
                /\ \A i \in DOMAIN log : \A j \in DOMAIN log :
                      i < j => Stage(log[i][1]) <= Stage(log[j][1])
                /\ old # NoId
                      => /\ At(log, "unregister", old) # {}
                         /\ At(log, "kill", old) # {}
                         /\ hosts'[old].killed
                /\ new # NoId /\ new # old /\ new \notin DOMAIN hosts
                /\ hosts'[new].pluginId = lastOp'.pluginId
                /\ hosts'[new].worker = "running"
                /\ \A r \in At(log, "register", new) :
                      \E a \in At(log, "arm", new) : a < r
                /\ At(log, "register", new) # {}
                /\ \A id \in mine :
                      /\ At(log, "invalidate", id) # {}
                      /\ At(log, "probe", id) # {}
                /\ \A i \in DOMAIN log :
                      /\ log[i][1] = "invalidate"
                            => /\ log[i][2] \in mine
                               /\ log[i][3] = NoId
                               /\ At(log, "probe", log[i][2]) # {}
                      /\ log[i][1] = "probe"
                            => /\ log[i][2] \in mine
                               /\ log[i][3] = new]_vars

\* a runPlugin call replaced the running host of plugin p1, which has
\* three devices, and probed the three
C25_Witness ==
    /\ lastOp.op = "runPlugin"
    /\ lastOp.pluginId = DevPlugin
    /\ \E old \in HostIds : At(lastOp.log, "kill", old) # {}
    /\ Cardinality({i \in DOMAIN lastOp.log : lastOp.log[i][1] = "probe"}) = 3
    /\ plugins[DevPlugin] = Len(hosts)

C27_KillPluginIdempotent ==
    [][(lastOp'.op = "killPlugin" /\ lastOp' # lastOp)
          => \E p \in {lastOp'.pluginId} :
             \E existing \in {plugins[lastOp'.pluginId]} :
             \E again \in {killPlugin(plugins', hosts', lastOp'.pluginId)} :
                /\ plugins'[p] = NoId
                /\ \A q \in PluginIds \ {p} : plugins'[q] = plugins[q]
                /\ \A h \in HostIds \ {existing} : hosts'[h] = hosts[h]
                /\ existing # NoId
                      => /\ hosts'[existing].killed
                         /\ hosts'[existing].worker # "running"
                         /\ Cardinality(At(lastOp'.log, "kill", existing)) = 1
                /\ existing = NoId
                      => /\ hosts' = hosts
                         /\ plugins' = plugins
                         /\ lastOp'.log = <<>>
                /\ \A i \in DOMAIN lastOp'.log : lastOp'.log[i][2] = existing
                /\ again.plugins = plugins'
                /\ again.hosts = hosts'
                /\ again.log = <<>>]_vars

\* killPlugin was called for a plugin that had no registered host after an
\* earlier call had killed its host
C27_Witness ==
    /\ lastOp.op = "killPlugin"
    /\ lastOp.log = <<>>
    /\ plugins[lastOp.pluginId] = NoId
    /\ \E h \in HostIds :
          /\ hosts[h].pluginId = lastOp.pluginId
          /\ hosts[h].killed
          /\ hosts[h].timer = "none"

\* the host is not the one registered for its plugin: killPlugin, runPlugin
\* or removeDevice has unregistered and killed it
Unregistered(h) == plugins[hosts[h].pluginId] # h

\* C28: a host that was killed by killPlugin, by the replacement of
\* runPlugin or by removeDevice when no restart was scheduled for it never
\* schedules a restart, whenever its worker exits
C28_NoRestartAfterKill ==
    [][\A h \in HostIds :
          (Unregistered(h) /\ hosts[h].timer = "none")
              => hosts'[h].timer = "none"]_vars

\* the exit of the worker of a host that was killed while it ran has been
\* handled, and no restart is scheduled
C28_Witness ==
    \E h \in HostIds :
        /\ Unregistered(h)
        /\ hosts[h].killed
        /\ hosts[h].worker = "reaped"
        /\ hosts[h].timer = "none"

\* C29: killall calls kill on every host of the plugins table, and then
\* exits the process
C29_KillallKillsEveryHost ==
    [][(lastOp'.op = "killall" /\ lastOp.op # "killall")
          => \E log \in {lastOp'.log} :
                /\ \A p \in PluginIds :
                      plugins[p] # NoId
                          => /\ hosts'[plugins[p]].killed
                             /\ hosts'[plugins[p]].worker # "running"
                             /\ \E k \in At(log, "kill", plugins[p]) :
                                   \E e \in At(log, "exit", NoId) : k < e
                /\ Cardinality(At(log, "exit", NoId)) = 1
                /\ log[Len(log)][1] = "exit"]_vars

\* the signal came while two plugins had a running host; both were killed
C29_Witness ==
    /\ lastOp.op = "killall"
    /\ Len(lastOp.log) = 3
    /\ \A p \in PluginIds :
          /\ plugins[p] # NoId
          /\ hosts[plugins[p]].killed
          /\ hosts[plugins[p]].worker = "dead"

\* the positions of the chain of device d whose entry declares the
\* capability
Declaring(d, capability) ==
    {i \in DOMAIN devices[d].table :
        capability \in (IF i = Len(devices[d].table)
                        THEN Range(getState(objs[d], "providedInterfaces"))
                        ELSE MixinInterfaces(devices[d].table[i].mixinProviderId))}

\* C30: an access to a capability on a proxy is served by the outermost
\* entry of the chain that declares the capability; a capability that a
\* single wrapper declares is served by that wrapper and not by the device's
\* raw implementation, and a capability that no entry declares by none
C30_DispatchOutermost ==
    [][(lastOp'.op = "access" /\ lastOp' # lastOp)
          => \E capability \in {lastOp'.log[1][1]} :
             \E d \in {lastOp'.log[1][2]} :
             \E target \in {lastOp'.log[1][3]} :
             \E declaring \in {Declaring(lastOp'.log[1][2], lastOp'.log[1][1])} :
                /\ declaring = {} <=> target = NoEntry
                /\ declaring # {}
                      => \E i \in declaring :
                            /\ devices[d].table[i].mixinProviderId = target
                            /\ \A j \in declaring : i <= j
                /\ \A i \in declaring :
                      (declaring = {i} /\ i < Len(devices[d].table))
                          => /\ target = devices[d].table[i].mixinProviderId
                             /\ target # NoId]_vars

\* the chain of the device is [m1, m2, device]; a capability that only m2
\* declares was accessed and served by the wrapper of m2
C30_Witness ==
    /\ lastOp.op = "access"
    /\ \E d \in {lastOp.log[1][2]} :
          /\ devices[d].built
          /\ Len(devices[d].table) = 3
          /\ Declaring(d, lastOp.log[1][1]) = {2}
          /\ lastOp.log[1][3] = devices[d].table[2].mixinProviderId
          /\ Declaring(d, "OnOff") = {1, 3}

(***************************************************************************)
(* Claims about the device table.                                          *)
(***************************************************************************)
\* the device carries the ScryptedPlugin marker in its providedInterfaces
HasMarker(x) == ScryptedPlugin \in Range(getState(objs[x], "providedInterfaces"))

\* C15: each plugin has at most one record that is treated as its
\* plugin-root device (a record without native id), and a record carries the
\* ScryptedPlugin marker exactly when it is the record that
\* findPluginDevice(pluginId) finds
C15_SinglePluginRoot ==
    \A p \in PluginIds :
        /\ Cardinality({x \in pluginDevices :
                           objs[x].pluginId = p /\ Falsy(objs[x].nativeId)}) <= 1
        /\ \A x \in pluginDevices :
              objs[x].pluginId = p
                  => (HasMarker(x) <=> x = findPluginDevice(objs, pluginDevices, p, Undefined))

\* no record without state, and the same ids in the table and in the store
TablesConsistent ==
    /\ \A x \in pluginDevices : objs[x].hasState
    /\ \A x \in DOMAIN dsDevices : dsDevices[x].hasState
    /\ pluginDevices = DOMAIN dsDevices

C18_RemovalSurvivesDeadPlugin ==
    \A c \in CallIds :
        (/\ calls[c].status \in {"done", "failed"}
         /\ calls[c].quiet
         /\ calls[c].orphan
         /\ objs[calls[c].dev].nativeId # Undefined)
            => /\ calls[c].status = "done"
               /\ calls[c].dev \notin pluginDevices
               /\ calls[c].dev \notin DOMAIN dsDevices
               /\ calls[c].dev \notin getSystemState(objs, pluginDevices)
\* C35: every removeDevice call returns, whatever providerId graph the
\* upsertDevice calls produced: no call goes on nesting calls for provided
\* devices until the call stack is exhausted
C35_RemoveTerminates ==
    \A c \in CallIds : calls[c].status # "failed"

\* the other devices of a table of records that name d as their provider
ProvidedBy(records, keys, d) ==
    {x \in keys \ {d} : getState(records[x], "providerId") = d}

\* C36: in a removeDevice call that nothing interleaves with, the step
\* that clears the state of a device d and deletes d from pluginDevices is
\* taken when no other device that d provides is left in pluginDevices or
\* in the store: the nested calls for them have returned
C36_DepthFirst ==
    [][\A c \in CallIds : \A d \in pluginDevices :
          (/\ running = c
           /\ calls[c].status = "active"
           /\ calls[c].quiet
           /\ d \notin pluginDevices')
              => /\ Top(c).dev = d
                 /\ objs[d].hasState
                 /\ ~objs'[d].hasState
                 /\ ProvidedBy(objs, pluginDevices, d) = {}
                 /\ ProvidedBy(dsDevices, DOMAIN dsDevices, d) = {}
                 /\ pluginDevices' = pluginDevices \ {d}]_vars

\* the call removeDevice of a device that provided two others has just
\* cleared and deleted the device itself, in its outermost frame, and the
\* two are gone from the table and the store
C36_Witness ==
    \E c \in CallIds :
        /\ calls[c].status = "active"
        /\ calls[c].quiet
        /\ Len(calls[c].stack) = 1
        /\ Top(c).pc = "awaitRemove"
        /\ Top(c).dev = calls[c].dev
        /\ ~objs[calls[c].dev].hasState
        /\ Cardinality(calls[c].targets) >= 3
        /\ calls[c].targets \cap (pluginDevices \cup DOMAIN dsDevices) = {}

\* the interfaces that a declaration provides: the declared ones, with the
\* ScryptedPlugin marker for the plugin-root device (declared without
\* native id) and without it for any other device, sorted
ExpectedProvided(device) ==
    sortInterfaces(IF device.nativeId \in {Undefined, Null}
                   THEN Append(device.interfaces, ScryptedPlugin)
                   ELSE SeqFilterOut(device.interfaces, {ScryptedPlugin}))

\* C38: after an upsertDevice call for a device whose mixins list is
\* empty, interfaces is the sorted providedInterfaces of the call, which
\* are the declared interfaces plus ScryptedPlugin for the root device and
\* minus ScryptedPlugin for any other device; after an upsertDevice call
\* for any device, interfaces holds every interface of providedInterfaces
C38_InterfacesAreProvided ==
    lastUp.called =>
        /\ Range(getState(objs[lastUp.id], "providedInterfaces"))
              \subseteq Range(getState(objs[lastUp.id], "interfaces"))
        /\ getState(objs[lastUp.id], "mixins") = <<>>
              => /\ getState(objs[lastUp.id], "interfaces")
                       = getState(objs[lastUp.id], "providedInterfaces")
                 /\ getState(objs[lastUp.id], "interfaces")
                       = ExpectedProvided(lastUp.device)

\* the same for every declaration but the ones with the empty native id,
\* which holds
ProvidedExceptEmptyNativeId ==
    (lastUp.called /\ lastUp.device.nativeId # "") => C38_InterfacesAreProvided

\* C39: while no removeDevice call is under way, every id that has a proxy
\* pair in devices has a record in pluginDevices; once a removeDevice call
\* is complete, none of the devices it removed has a proxy pair, so that
\* getDevice finds none for it and invalidateMixins scans none
C39_ProxyTableWithinDeviceTable ==
    /\ (\A c \in CallIds : calls[c].status # "active")
           => DOMAIN devices \subseteq pluginDevices
    /\ \A c \in CallIds :
          calls[c].status = "done" => calls[c].targets \cap DOMAIN devices = {}

\* C40: once a removeDevice(d) call is complete, with whatever upsertDevice
\* calls at its suspension points, no record of pluginDevices has d as its
\* providerId
C40_NoChildLeftBehind ==
    \A c \in CallIds :
        calls[c].status = "done"
            => \A x \in pluginDevices :
                  objs[x].hasState => getState(objs[x], "providerId") # calls[c].dev

====
